---- MODULE Spec2Model ----
(***************************************************************************)
(* A model of orangefs-purge: main() and the recursive walker              *)
(* walk_rdp_and_purge() of src/unnamed/part_001 (the getopt version of     *)
(* src/orangefs-purge.c), run against a small OrangeFS store.              *)
(*                                                                         *)
(* The store is the external collaborator.  It holds a tree of at most     *)
(* four entries below the target directory; every entry's object type and  *)
(* dirent handle are chosen freely in Init, every listing call and every   *)
(* remove call may fail, and a listing may be cut into batches anywhere.   *)
(* The entries' times are fixed per slot and the removal-basis time sweeps *)
(* across them, so that every ordering of (atime, mtime, basis) occurs.    *)
(*                                                                         *)
(* Spec follows one run from the call of the walker, SpecRerun a second    *)
(* run on the store the first one left, and SpecMain one run from the      *)
(* entry of main: euid, command line and DRY_RUN as character strings,     *)
(* each start-up step with its failure, the log stream and its lines.      *)
(* SpecStats starts where the walker has returned, with any counters, and  *)
(* writes the report; SpecLog is one run with the two file-logging options *)
(* set freely; SpecLive is Spec with the fairness of a program that runs.  *)
(*                                                                         *)
(* SpecWrapper follows the shell script orangefs-purge-user-dirs.sh of     *)
(* the same file (lines 932-1160), which runs orangefs-purge once per user *)
(* directory and sees of each run only its exit status.                    *)
(*                                                                         *)
(* SpecPath follows the bytes of one frame's path buffer for parent paths  *)
(* that nearly fill it, and SpecCall the walker called with arguments that *)
(* may be null.                                                            *)
(***************************************************************************)
EXTENDS Integers, Sequences, FiniteSets, TLC

VARIABLES
    opts,                \* struct options_s opts
    fs_id,               \* the filesystem id PVFS_util_resolve hands to main
    removal_basis_time,  \* PVFS_time removal_basis_time
    pstats,              \* struct purge_stats_s pstats
    stack,               \* the active walk_rdp_and_purge frames, innermost last
    mpc,                 \* main's position
    mret,                \* main's ret
    result,              \* what main reports: purge_success line and exit code
    store,               \* the OrangeFS tree
    calls,               \* store calls of this run: listings counted, removes logged
    faults,              \* failed calls in this run
    outcome,             \* per entry: what the walker did with it
    unwound,             \* a walker frame has returned non-zero in this run
    prev,                \* the report of the previous run on this store, if any
    proc,                \* the process: euid, argv, DRY_RUN, start-up, logp and log
    sh                   \* the shell that runs orangefs-purge-user-dirs.sh

vars == <<opts, fs_id, removal_basis_time, pstats, stack, mpc, mret, result,
          store, calls, faults, outcome, unwound, prev, proc, sh>>

-----------------------------------------------------------------------------
(* Program constants *)

DAY_SECS == 24 * 60 * 60
THIRTYONE_DAYS_SECS == 31 * DAY_SECS
PVFS_REQ_LIMIT_DIRENT_COUNT_READDIRPLUS == 60
PVFS_HANDLE_NULL == 0
PVFS_FS_ID_NULL == 0
PVFS_READDIR_START == 0
PVFS_ITERATE_END == -1

-----------------------------------------------------------------------------
(* Bounds and the store's tree *)

\* File times and -r values range over 0..MaxTime.
MaxTime == 4

\* The wall-clock time at which main starts: the default basis is 2.
StartTime == THIRTYONE_DAYS_SECS + 2

\* The valid filesystem id of the store.
StoreFsId == 1

\* Handle of the target directory, found by PVFS_sys_lookup.
RootHandle == 1

\* The entries of the tree; an entry's handle in the store is its number.
Slots == 2..5

\* The directory slots of each handle, in listing order.
Children(h) ==
    CASE h = 1 -> <<2, 3, 4>>
      [] h = 2 -> <<5>>
      [] OTHER -> <<>>

Parent(s) == CHOOSE h \in {RootHandle} \cup Slots :
                 \E k \in 1..Len(Children(h)) : Children(h)[k] = s

\* Attributes the store reports for an entry (PVFS_sys_attr atime, mtime, size).
\* They are fixed per slot; the removal-basis time is what Init varies.
AttrAtime(s) == CASE s = 2 -> 1 [] s = 3 -> 3 [] s = 4 -> 1 [] OTHER -> 2
AttrMtime(s) == CASE s = 2 -> 3 [] s = 3 -> 1 [] s = 4 -> 1 [] OTHER -> 2
AttrSize(s) == s

\* The target directory as given on the command line (no trailing '/'), and
\* the d_name of each entry; the names differ in length.
TargetDir == <<"/", "m">>

DName(s) ==
    CASE s = 2 -> <<"b", "b">>
      [] s = 3 -> <<"a">>
      [] s = 4 -> <<"c", "c", "c">>
      [] OTHER -> <<"d">>

ObjTypes == {"METAFILE", "DIRECTORY", "SYMLINK", "DATAFILE"}

\* What the store may hold in a slot: an object of any type, an entry whose
\* dirent carries the null handle, or nothing.
SlotKinds == ObjTypes \cup {"NULLHANDLE", "ABSENT"}

SlotRec(s, kind) ==
    CASE kind = "ABSENT" ->
           [objtype |-> "DATAFILE", handle |-> s, present |-> FALSE]
      [] kind = "NULLHANDLE" ->
           [objtype |-> "METAFILE", handle |-> PVFS_HANDLE_NULL, present |-> TRUE]
      [] OTHER ->
           [objtype |-> kind, handle |-> s, present |-> TRUE]

\* Only a directory has entries below it, and the tree is full: every slot of
\* a directory holds an entry when the run starts.
WellFormed(kinds) ==
    \A s \in Slots :
        (kinds[s] = "ABSENT") <=>
            (Parent(s) # RootHandle /\ kinds[Parent(s)] # "DIRECTORY")

Trees == {[s \in Slots |-> SlotRec(s, kinds[s])] :
             kinds \in {k \in [Slots -> SlotKinds] : WellFormed(k)}}

-----------------------------------------------------------------------------
(* Pure helpers *)

ZeroStats ==
    [rm_bytes |-> 0, rm_fils |-> 0, frm_bytes |-> 0, frm_fils |-> 0,
     kept_bytes |-> 0, kept_fils |-> 0, lnks |-> 0, dirs |-> 0, unknown |-> 0]

\* A float, as far as the report needs it: the quotient num/den of two
\* integers, or what IEEE division by zero gives (0/0 is not-a-number, x/0
\* is infinite).
FloatZero == [kind |-> "finite", num |-> 0, den |-> 1]

FloatDiv(n, d) ==
    IF d # 0 THEN [kind |-> "finite", num |-> n, den |-> d]
    ELSE [kind |-> IF n = 0 THEN "nan" ELSE "inf", num |-> n, den |-> d]

FloatMul(x, f) == [x EXCEPT !.num = @ * f]

\* Mutant: the quotient is returned whatever the denominator is.
PS_CORRECT_NAN_NoGuard(n, d, r, f) == FloatMul(FloatDiv(n, d), f)

\* The macro of lines 272-291 with psp not NULL (log_pstats_more passes
\* &pstats): r when the denominator is 0, else (n / d) * f.
PS_CORRECT_NAN(n, d, r, f) ==
    IF d > 0 THEN FloatMul(FloatDiv(n, d), f) ELSE r

\* Lines 293-336.
ps_percent_bytes_removed(ps) ==
    PS_CORRECT_NAN(ps.rm_bytes, ps.rm_bytes + ps.frm_bytes + ps.kept_bytes,
                   FloatZero, 100)

ps_percent_files_removed(ps) ==
    PS_CORRECT_NAN(ps.rm_fils, ps.rm_fils + ps.frm_fils + ps.kept_fils,
                   FloatZero, 100)

ps_pre_purge_avg_file_size(ps) ==
    PS_CORRECT_NAN(ps.rm_bytes + ps.frm_bytes + ps.kept_bytes,
                   ps.rm_fils + ps.frm_fils + ps.kept_fils, FloatZero, 1)

ps_post_purge_avg_file_size(ps) ==
    PS_CORRECT_NAN(ps.frm_bytes + ps.kept_bytes, ps.frm_fils + ps.kept_fils,
                   FloatZero, 1)

ps_purged_avg_file_size(ps) ==
    PS_CORRECT_NAN(ps.rm_bytes, ps.rm_fils, FloatZero, 1)

\* The values log_pstats (238-262) and log_pstats_more (338-354) print.
log_pstats(ps) == ps

log_pstats_more(ps) ==
    [percent_bytes_removed |-> ps_percent_bytes_removed(ps),
     percent_files_removed |-> ps_percent_files_removed(ps),
     pre_purge_avg_file_size |-> ps_pre_purge_avg_file_size(ps),
     post_purge_avg_file_size |-> ps_post_purge_avg_file_size(ps),
     purged_avg_file_size |-> ps_purged_avg_file_size(ps)]

\* The values of the report in the log: none before main has written it.
NoReport ==
    [written |-> FALSE, counters |-> ZeroStats,
     ratios |-> log_pstats_more(ZeroStats)]

Report(ps) ==
    [written |-> TRUE, counters |-> log_pstats(ps), ratios |-> log_pstats_more(ps)]

\* Mutant: the null-identifier test of lines 389-393 is missing.
sys_attr_to_stat_NoCheck(objtype, s, ref) ==
    [ret |-> 0,
     st_mode |-> CASE objtype = "METAFILE" -> "S_IFREG"
                   [] objtype = "DIRECTORY" -> "S_IFDIR"
                   [] objtype = "SYMLINK" -> "S_IFLNK"
                   [] OTHER -> "NONE",
     st_size |-> AttrSize(s),
     st_atime |-> AttrAtime(s),
     st_mtime |-> AttrMtime(s)]

\* Mutant: a symlink is given the mode of a directory.
sys_attr_to_stat_LinkAsDir(objtype, s, ref) ==
    IF ref.handle = PVFS_HANDLE_NULL \/ ref.fs_id = PVFS_FS_ID_NULL
    THEN [ret |-> -1, st_mode |-> "NONE", st_size |-> 0, st_atime |-> 0, st_mtime |-> 0]
    ELSE [ret |-> 0,
          st_mode |-> CASE objtype = "METAFILE" -> "S_IFREG"
                        [] objtype = "DIRECTORY" -> "S_IFDIR"
                        [] objtype = "SYMLINK" -> "S_IFDIR"
                        [] OTHER -> "NONE",
          st_size |-> AttrSize(s),
          st_atime |-> AttrAtime(s),
          st_mtime |-> AttrMtime(s)]

\* Mutant: an object of no known type makes the conversion fail.
sys_attr_to_stat_UnknownFails(objtype, s, ref) ==
    IF \/ ref.handle = PVFS_HANDLE_NULL \/ ref.fs_id = PVFS_FS_ID_NULL
       \/ objtype \notin {"METAFILE", "DIRECTORY", "SYMLINK"}
    THEN [ret |-> -1, st_mode |-> "NONE", st_size |-> 0, st_atime |-> 0, st_mtime |-> 0]
    ELSE [ret |-> 0,
          st_mode |-> CASE objtype = "METAFILE" -> "S_IFREG"
                        [] objtype = "DIRECTORY" -> "S_IFDIR"
                        [] OTHER -> "S_IFLNK",
          st_size |-> AttrSize(s),
          st_atime |-> AttrAtime(s),
          st_mtime |-> AttrMtime(s)]

\* sys_attr_to_stat: -1 on a null handle or fs id, else the stat record.
sys_attr_to_stat(objtype, s, ref) ==
    IF ref.handle = PVFS_HANDLE_NULL \/ ref.fs_id = PVFS_FS_ID_NULL
    THEN [ret |-> -1, st_mode |-> "NONE", st_size |-> 0, st_atime |-> 0, st_mtime |-> 0]
    ELSE [ret |-> 0,
          st_mode |-> CASE objtype = "METAFILE" -> "S_IFREG"
                        [] objtype = "DIRECTORY" -> "S_IFDIR"
                        [] objtype = "SYMLINK" -> "S_IFLNK"
                        [] OTHER -> "NONE",
          st_size |-> AttrSize(s),
          st_atime |-> AttrAtime(s),
          st_mtime |-> AttrMtime(s)]

\* Mutant: the comparisons are <= instead of <.
is_eligible_for_removal_Lte(atime, mtime, basis) ==
    atime <= basis /\ mtime <= basis

\* Mutant: one old time is enough.
is_eligible_for_removal_Either(atime, mtime, basis) ==
    atime < basis \/ mtime < basis

\* The test of lines 561-562.
is_eligible_for_removal(atime, mtime, basis) ==
    atime < basis /\ mtime < basis

-----------------------------------------------------------------------------
(* The walker's frames *)

\* Sizes of the path buffers, in bytes.
PVFS_PATH_MAX == 4096
PATH_MAX == 4096

\* The value a short holds after it is assigned n (line 482).
ToShort(n) == ((n + 32768) % 65536) - 32768

\* The string strncpy(dst, src, n) leaves in a zeroed dst: at most n
\* characters of src.
strncpy(src, n) == SubSeq(src, 1, IF Len(src) < n THEN Len(src) ELSE n)

\* Mutant: the entry is appended to whatever the buffer holds.
BuildPath_Append(buf, dir_len, d_name) == buf \o <<"/">> \o d_name

\* Lines 544-552: the bytes from dir_len on are zeroed, a '/' is put at
\* dir_len and the entry's name is copied behind it.
BuildPath(buf, dir_len, d_name) ==
    SubSeq(buf, 1, dir_len) \o <<"/">>
        \o strncpy(d_name, PATH_MAX - 1 - dir_len - 1)

\* A frame as walk_rdp_and_purge sets it up before its while(1) loop
\* (lines 466-489: token = PVFS_READDIR_START, ret = 0, dir_len and
\* dirent_path from path, no response held, no listing request made yet).
\* path_alloc: the calloc of line 483 has not been freed; arrays_alloc: the
\* three arrays of the response held have not been freed.
NewFrame(path, ref) ==
    [path |-> path, dir_len |-> ToShort(Len(path)),
     dirent_path |-> strncpy(path, PVFS_PATH_MAX - 1),
     dir_ref |-> ref, token |-> PVFS_READDIR_START, batch |-> <<>>,
     resp_token |-> PVFS_READDIR_START, i |-> 0, ret |-> 0, pc |-> "readdir",
     asked |-> FALSE, path_alloc |-> TRUE, arrays_alloc |-> FALSE]

Top == stack[Len(stack)]

SetTop(f) == [stack EXCEPT ![Len(stack)] = f]

\* The label cleanup (lines 667-671): dirent_path is freed and ret returned.
cleanup(f) == [f EXCEPT !.pc = "return", !.path_alloc = FALSE]

\* Mutant: the loop is left after every batch, end marker or not.
AfterBatch_AlwaysBreaks(f) ==
    cleanup([f EXCEPT !.batch = <<>>, !.i = 0, !.arrays_alloc = FALSE])

\* Mutant: the token of the response is not taken over (line 663 is missing).
AfterBatch_KeepCursor(f) ==
    IF f.resp_token = PVFS_ITERATE_END
    THEN cleanup([f EXCEPT !.batch = <<>>, !.i = 0, !.arrays_alloc = FALSE])
    ELSE [f EXCEPT !.pc = "readdir", !.batch = <<>>, !.i = 0,
                   !.arrays_alloc = FALSE]

\* Lines 646-665: the batch is done and its arrays are freed (they are
\* NULL when the response held no entry); break on PVFS_ITERATE_END (then cleanup
\* returns ret as it stands), else ask again with the token of the response.
AfterBatch(f) ==
    IF f.resp_token = PVFS_ITERATE_END
    THEN cleanup([f EXCEPT !.batch = <<>>, !.i = 0, !.arrays_alloc = FALSE])
    ELSE [f EXCEPT !.pc = "readdir", !.token = f.resp_token, !.batch = <<>>, !.i = 0,
                   !.arrays_alloc = FALSE]

\* The for loop's i++ and test; after the last entry the arrays are freed.
NextEntry(f) ==
    IF f.i < Len(f.batch)
    THEN [f EXCEPT !.i = f.i + 1, !.pc = "entry"]
    ELSE AfterBatch(f)

\* Mutant: the store also lists the entries that have been removed.
Listed_WithRemoved(st, kids, pos, newpos) == SubSeq(kids, pos + 1, newpos)

\* The dirents of slots pos+1..newpos that are still in the store.
RECURSIVE Listed(_, _, _, _)
Listed(st, kids, pos, newpos) ==
    IF pos >= newpos THEN <<>>
    ELSE (IF st[kids[pos + 1]].present THEN <<kids[pos + 1]>> ELSE <<>>)
           \o Listed(st, kids, pos + 1, newpos)

InEntry == /\ mpc = "walk"
           /\ stack # <<>>
           /\ Top.pc = "entry"

\* The current dirent, its reference as line 531 builds it, and its stat.
CurSlot == Top.batch[Top.i]
CurRef == [handle |-> store[CurSlot].handle, fs_id |-> Top.dir_ref.fs_id]
CurStat == sys_attr_to_stat(store[CurSlot].objtype, CurSlot, CurRef)

\* Mutant: the option's value is taken as it is, 0 included.
BasisTime_NoDefault(o, current_time) == o.removal_basis_time

\* The removal-basis time main computes from the options and the time at
\* which it started (lines 864-871).
BasisTime(o, current_time) ==
    IF o.removal_basis_time = 0
    THEN current_time - THIRTYONE_DAYS_SECS
    ELSE o.removal_basis_time

\* What get_current_time() returns at this point of the run: the clock has
\* advanced by one tick with every call made to the store since the start.
Now == StartTime + calls.list + Len(calls.remove)

\* The top frame once lines 544-552 have built the current dirent's path.
Entered ==
    [Top EXCEPT !.dirent_path = BuildPath(Top.dirent_path, Top.dir_len, DName(CurSlot))]

\* Mutant: the basis is computed again from the clock at every decision.
Eligible_Recomputed(st) ==
    is_eligible_for_removal(st.st_atime, st.st_mtime, BasisTime(opts, Now))

\* The test of line 561 against the global removal_basis_time.
Eligible(st) == is_eligible_for_removal(st.st_atime, st.st_mtime, removal_basis_time)

\* Mutant: every remove call names the target directory as the parent.
RemoveCall_RootParent ==
    [name |-> CurSlot, parent |-> stack[1].dir_ref]

\* The PVFS_sys_remove call of lines 571-574: the dirent's name in *dir_refp.
RemoveCall == [name |-> CurSlot, parent |-> Top.dir_ref]

-----------------------------------------------------------------------------
(* The process: command line, environment, log *)

\* The characters of the option arguments and environment values.
DigitVal(c) ==
    CASE c = "0" -> 0 [] c = "1" -> 1 [] c = "2" -> 2 [] c = "3" -> 3
      [] c = "4" -> 4 [] c = "5" -> 5 [] c = "6" -> 6 [] c = "7" -> 7
      [] c = "8" -> 8 [] c = "9" -> 9 [] OTHER -> -1

DigitChars == {"0", "1", "2", "3", "4", "5", "6", "7", "8", "9"}

\* The -r arguments tried: one or two digits, each at most MaxTime.
RDigits == {c \in DigitChars : DigitVal(c) <= MaxTime}

RTexts == {<<a>> : a \in RDigits} \cup {<<a, b>> : a, b \in RDigits}

\* The DRY_RUN values tried: one or two characters, digits or not.
EnvChars == {"0", "1", "t"}

EnvTexts == {<<a>> : a \in EnvChars} \cup {<<a, b>> : a, b \in EnvChars}

NotGiven == [given |-> FALSE, text |-> <<>>]

\* The digits of text from position k on, read in the given base; reading
\* stops at the first character that is no digit of the base.
RECURSIVE ParseDigits(_, _, _, _)
ParseDigits(text, k, base, acc) ==
    IF k > Len(text) \/ DigitVal(text[k]) \notin 0..(base - 1)
    THEN acc
    ELSE ParseDigits(text, k + 1, base, acc * base + DigitVal(text[k]))

\* strtoull(optarg, NULL, 0) of line 721: base 0 reads a leading 0 as octal
\* and anything else as decimal (no argument tried here has the 0x prefix).
strtoull(text) ==
    IF text # <<>> /\ text[1] = "0"
    THEN ParseDigits(text, 2, 8, 0)
    ELSE ParseDigits(text, 1, 10, 0)

\* atoi(dry_run_str) of line 744: the leading decimal digits, 0 if none.
atoi(text) == ParseDigits(text, 1, 10, 0)

\* Mutant: when DRY_RUN is set its value decides, whatever the flag says.
DryRunSetting_EnvDecides(flag, env) ==
    IF env.given THEN atoi(env.text) # 0 ELSE flag

\* opts.dry_run after the option loop and the DRY_RUN test (708-710, 738-750).
DryRunSetting(flag, env) ==
    flag \/ (env.given /\ atoi(env.text) # 0)

EXIT_SUCCESS == 0
EXIT_FAILURE == 1

\* Mutant: every way out of main gives status 0.
ExitStatus_Zero(v) == 0

\* The exit status the parent sees when main returns v or calls exit(v).
ExitStatus(v) == v % 256

\* The lines main writes to the log before the walk (891-896) and after it
\* (904-910, log_pstats, log_pstats_more), each named by its key.
HeaderLines ==
    <<"directory", "dry_run", "current_time", "current_time_str",
      "removal_basis_time", "removal_basis_time_str">>

ReportLines ==
    <<"finish_time", "finish_time_str", "duration_seconds",
      "removed_bytes", "removed_files", "failed_removed_bytes",
      "failed_removed_files", "kept_bytes", "kept_files", "directories",
      "symlinks", "unknown",
      "percent_bytes_removed", "percent_files_removed",
      "pre_purge_avg_file_size", "post_purge_avg_file_size",
      "purged_avg_file_size">>

\* The last line of the log (920, 926).
SuccessLine(v) == IF v = "true" THEN "purge_success true" ELSE "purge_success false"

\* Lines 883-889: the log file, or stderr when it cannot be opened.
fopen(ok) == IF ok THEN "file" ELSE "stderr"

\* fprintf(logp, ...) or fclose(logp) is called by the process p: the call is
\* remembered when logp is still the NULL of line 204.
UseStream(p) == [p EXCEPT !.unset_use = @ \/ p.logp = "NULL"]

\* The process of a run whose start-up has succeeded with the options o: it
\* was started as root with -r <basis> (if not 0), -d (if dry), a target
\* directory and no DRY_RUN, and the log has not been opened yet.
Started(o) ==
    [euid |-> 0,
     r |-> IF o.removal_basis_time = 0 THEN NotGiven
           ELSE [given |-> TRUE,
                 text |-> <<CHOOSE c \in DigitChars :
                               DigitVal(c) = o.removal_basis_time>>],
     d |-> o.dry_run, h |-> FALSE, dir |-> TRUE,
     log_removed_files |-> o.log_removed_files,
     log_kept_files |-> o.log_kept_files,
     DRY_RUN |-> NotGiven,
     log_ok |-> TRUE,
     startup |-> "ok",
     logp |-> "NULL",
     log |-> <<>>,
     flines |-> <<>>,
     report |-> NoReport,
     leaked |-> 0,
     target |-> "dir",
     unset_use |-> FALSE]

-----------------------------------------------------------------------------
(* The shell of orangefs-purge-user-dirs.sh *)

\* The largest number of directories one level below users_dir.
MaxDirs == 2

\* The directories that may exist one level below users_dir, numbered in the
\* order sort gives their paths; the empty line reads as the name EmptyName.
UserDirs == 1..MaxDirs

EmptyName == 0

\* The exit statuses the shell can see of an orangefs-purge process: main
\* returns 0, 1 or -1, or the process is killed by SIGSEGV.
PurgeExitCodes == {ExitStatus(0), ExitStatus(1), ExitStatus(-1), 128 + 11}

\* What -t may carry: nothing (0), or a threshold in seconds.
Thresholds == {0, 1}

RECURSIVE SortLines(_)
SortLines(S) ==
    IF S = {} THEN <<>>
    ELSE LET m == CHOOSE x \in S : \A y \in S : x <= y
         IN <<m>> \o SortLines(S \ {m})

\* The lines `while read dir` gets from <<< "$(cat users-dirs | sort)"
\* (line 1123): the sorted lines of the file, and one empty line when the
\* file is empty or missing.
HereLines(file) == IF file = {} THEN <<EmptyName>> ELSE SortLines(file)

\* A line of the script's output: the stream, the key and the directory.
OutLine(fd, key, dir) == [fd |-> fd, key |-> key, dir |-> dir]

NoDir == -1

\* No wrapper is running.
NoShell == [pc |-> "none"]

\* The shell when the script is started: who runs it, what is installed,
\* the command line, the directories and the exclusions file.
ShellStarts ==
    [pc : {"root"},
     EUID : {0, 1000},
     purge_x : BOOLEAN, logs2df_x : BOOLEAN,
     a : BOOLEAN, e : BOOLEAN, h : BOOLEAN, bad : BOOLEAN, t : Thresholds,
     users_dir_ok : BOOLEAN, log_dir_ok : BOOLEAN,
     efile_ok : BOOLEAN, excl : SUBSET UserDirs, dirs : SUBSET UserDirs,
     clock : {StartTime},
     ANALYTICS_ENABLED : {FALSE},
     PURGE_TIME_THRESHOLD : {THIRTYONE_DAYS_SECS},
     START_TIME : {0}, REMOVAL_BASIS_TIME : {0},
     listed : {FALSE}, users_dirs : {{}}, todo : {<<>>},
     purge_error_encountered : {FALSE},
     analytics_error_encountered : {FALSE},
     runs : {<<>>}, out : {<<>>}, status : {-1}]

-----------------------------------------------------------------------------
(* Initial state: main has been started with its options parsed *)

Init ==
    /\ opts \in [removal_basis_time : 0..MaxTime, dry_run : BOOLEAN,
                 log_removed_files : {FALSE}, log_kept_files : {FALSE}]
    /\ fs_id \in {PVFS_FS_ID_NULL, StoreFsId}
    /\ removal_basis_time = 0
    /\ pstats = ZeroStats
    /\ stack = <<>>
    /\ mpc = "start"
    /\ mret = 0
    /\ result = [purge_success |-> "unset", exit_code |-> -1]
    /\ store \in Trees
    /\ calls = [list |-> 0, remove |-> <<>>]
    /\ faults = [list |-> 0, remove |-> 0, classify |-> 0]
    /\ outcome = [s \in Slots |-> "none"]
    /\ unwound = FALSE
    /\ prev = [run |-> FALSE]
    /\ proc = Started(opts)
    /\ sh = NoShell

\* The runs in which --log-removed-files and --log-kept-files may be given:
\* main has parsed its options and resolved the target.
InitLog ==
    /\ opts \in [removal_basis_time : 0..MaxTime, dry_run : BOOLEAN,
                 log_removed_files : BOOLEAN, log_kept_files : BOOLEAN]
    /\ fs_id = StoreFsId
    /\ removal_basis_time = 0
    /\ pstats = ZeroStats
    /\ stack = <<>>
    /\ mpc = "start"
    /\ mret = 0
    /\ result = [purge_success |-> "unset", exit_code |-> -1]
    /\ store \in Trees
    /\ calls = [list |-> 0, remove |-> <<>>]
    /\ faults = [list |-> 0, remove |-> 0, classify |-> 0]
    /\ outcome = [s \in Slots |-> "none"]
    /\ unwound = FALSE
    /\ prev = [run |-> FALSE]
    /\ proc = Started(opts)
    /\ sh = NoShell

\* The trees of the runs that are followed from the very start of main.
MainTrees ==
    {t \in Trees : /\ t[2].objtype = "DIRECTORY"
                   /\ t[3].objtype # "DIRECTORY"
                   /\ t[4] = SlotRec(4, "METAFILE")
                   /\ t[5] = SlotRec(5, "METAFILE")}

\* The state when main is entered: any euid, command line and environment.
InitMain ==
    /\ opts = [removal_basis_time |-> 0, dry_run |-> FALSE,
               log_removed_files |-> FALSE, log_kept_files |-> FALSE]
    /\ fs_id = PVFS_FS_ID_NULL
    /\ removal_basis_time = 0
    /\ pstats = ZeroStats
    /\ stack = <<>>
    /\ mpc = "main"
    /\ mret = 0
    /\ result = [purge_success |-> "unset", exit_code |-> -1]
    /\ store \in MainTrees
    /\ calls = [list |-> 0, remove |-> <<>>]
    /\ faults = [list |-> 0, remove |-> 0, classify |-> 0]
    /\ outcome = [s \in Slots |-> "none"]
    /\ unwound = FALSE
    /\ prev = [run |-> FALSE]
    /\ proc \in [euid : {0, 1000},
                 r : {NotGiven} \cup {[given |-> TRUE, text |-> t] : t \in RTexts},
                 d : BOOLEAN, h : BOOLEAN, dir : BOOLEAN,
                 log_removed_files : {FALSE}, log_kept_files : {FALSE},
                 DRY_RUN : {NotGiven} \cup {[given |-> TRUE, text |-> t] : t \in EnvTexts},
                 log_ok : BOOLEAN,
                 startup : {"pending"},
                 logp : {"NULL"},
                 log : {<<>>},
                 flines : {<<>>},
                 report : {NoReport},
                 leaked : {0},
                 target : {"unseen"},
                 unset_use : {FALSE}]
    /\ sh = NoShell

\* The largest value of a counter in the runs that start at the report.
MaxCount == 2

\* The statistics a walk can have accumulated when it returns to main: files
\* of any size may have been counted in each pair, and no bytes without a file.
WalkStats ==
    {ps \in [DOMAIN ZeroStats -> 0..MaxCount] :
        /\ ps.rm_fils = 0 => ps.rm_bytes = 0
        /\ ps.frm_fils = 0 => ps.frm_bytes = 0
        /\ ps.kept_fils = 0 => ps.kept_bytes = 0
        /\ ps.dirs = 0 /\ ps.lnks = 0 /\ ps.unknown = 0}

\* The state when walk_rdp_and_purge has returned to main (line 900): the
\* log is open and holds the header, the walk returned 0 or -1.
InitStats ==
    /\ opts = [removal_basis_time |-> 0, dry_run |-> TRUE,
               log_removed_files |-> FALSE, log_kept_files |-> FALSE]
    /\ fs_id = StoreFsId
    /\ removal_basis_time = BasisTime(opts, StartTime)
    /\ pstats \in WalkStats
    /\ stack = <<>>
    /\ mpc = "report"
    /\ mret \in {0, -1}
    /\ result = [purge_success |-> "unset", exit_code |-> -1]
    /\ store = [s \in Slots |-> SlotRec(s, IF s = 5 THEN "ABSENT" ELSE "METAFILE")]
    /\ calls = [list |-> 1, remove |-> <<>>]
    /\ faults = [list |-> 0, remove |-> 0, classify |-> 0]
    /\ outcome = [s \in Slots |-> "none"]
    /\ unwound = (mret # 0)
    /\ prev = [run |-> FALSE]
    /\ proc = [Started(opts) EXCEPT !.logp = fopen(TRUE), !.log = HeaderLines]
    /\ sh = NoShell

-----------------------------------------------------------------------------
(* main *)

\* What every start-up step leaves alone.
WalkUntouched ==
    UNCHANGED <<sh, removal_basis_time, pstats, stack, store, calls, faults,
                outcome, unwound, prev>>

\* Lines 696-700: not root, return -1.
NotRoot ==
    /\ mpc = "main"
    /\ proc.euid # 0
    /\ result' = [purge_success |-> "unset", exit_code |-> ExitStatus(-1)]
    /\ proc' = [proc EXCEPT !.startup = "not_root"]
    /\ mpc' = "done"
    /\ UNCHANGED <<opts, fs_id, mret>>
    /\ WalkUntouched

\* Lines 723-736: getopt_long returned 'h' or '?' (usage, EXIT_SUCCESS), or
\* no target directory follows the options (usage, EXIT_FAILURE).
Usage ==
    /\ mpc = "main"
    /\ proc.euid = 0
    /\ proc.h \/ ~proc.dir
    /\ result' = [purge_success |-> "unset",
                  exit_code |-> ExitStatus(IF proc.h THEN EXIT_SUCCESS
                                           ELSE EXIT_FAILURE)]
    /\ proc' = [proc EXCEPT !.startup = IF proc.h THEN "usage" ELSE "no_dir"]
    /\ mpc' = "done"
    /\ UNCHANGED <<opts, fs_id, mret>>
    /\ WalkUntouched

\* Lines 702-750: the options and DRY_RUN are parsed into opts.
ParseOptions ==
    /\ mpc = "main"
    /\ proc.euid = 0 /\ ~proc.h /\ proc.dir
    /\ opts' = [removal_basis_time |-> IF proc.r.given THEN strtoull(proc.r.text)
                                       ELSE 0,
                dry_run |-> DryRunSetting(proc.d, proc.DRY_RUN),
                log_removed_files |-> proc.log_removed_files,
                log_kept_files |-> proc.log_kept_files]
    /\ mpc' = "init_defaults"
    /\ UNCHANGED <<fs_id, mret, result, proc>>
    /\ WalkUntouched

\* Lines 752-759: PVFS_util_init_defaults; on failure return -1.
InitDefaults ==
    /\ mpc = "init_defaults"
    /\ \E ok \in BOOLEAN :
         IF ok
         THEN /\ mpc' = "gen_credential"
              /\ UNCHANGED <<result, proc>>
         ELSE /\ result' = [purge_success |-> "unset", exit_code |-> ExitStatus(-1)]
              /\ proc' = [proc EXCEPT !.startup = "init_defaults"]
              /\ mpc' = "done"
    /\ UNCHANGED <<opts, fs_id, mret>>
    /\ WalkUntouched

\* A start-up step fails: ret = -1, goto cleanup_cred.
GotoCleanupCred(step) ==
    /\ mret' = -1
    /\ proc' = [proc EXCEPT !.startup = step]
    /\ mpc' = "cleanup_cred"

\* Lines 772-783: PVFS_util_gen_credential.
GenCredential ==
    /\ mpc = "gen_credential"
    /\ \E ok \in BOOLEAN :
         IF ok THEN mpc' = "lstat" /\ UNCHANGED <<mret, proc>>
         ELSE GotoCleanupCred("gen_credential")
    /\ UNCHANGED <<opts, fs_id, result>>
    /\ WalkUntouched

\* Mutant: stat, which follows a symbolic link to what it names.
lstat_Follows(t) ==
    CASE t \in {"dir", "symlink_to_dir"} -> "S_IFDIR"
      [] t = "file" -> "S_IFREG"
      [] OTHER -> "ENOENT"

\* lstat (789): the file type of the path itself, or the failure ENOENT.
lstat(t) ==
    CASE t = "dir" -> "S_IFDIR"
      [] t = "file" -> "S_IFREG"
      [] t = "symlink_to_dir" -> "S_IFLNK"
      [] OTHER -> "ENOENT"

\* Lines 789-803: lstat of the target, which must be a directory; the path
\* may name a directory, a file, a symbolic link to a directory, or nothing.
StatTarget ==
    /\ mpc = "lstat"
    /\ \E t \in {"dir", "file", "symlink_to_dir", "missing"} :
         CASE lstat(t) = "S_IFDIR" ->
                /\ mpc' = "resolve"
                /\ proc' = [proc EXCEPT !.target = t]
                /\ UNCHANGED mret
           [] lstat(t) = "ENOENT" ->
                /\ mret' = -1
                /\ proc' = [proc EXCEPT !.startup = "lstat", !.target = t]
                /\ mpc' = "cleanup_cred"
           [] OTHER ->
                /\ mret' = -1
                /\ proc' = [proc EXCEPT !.startup = "not_dir", !.target = t]
                /\ mpc' = "cleanup_cred"
    /\ UNCHANGED <<opts, fs_id, result>>
    /\ WalkUntouched

\* Lines 805-832: PVFS_util_resolve gives the filesystem id.
Resolve ==
    /\ mpc = "resolve"
    /\ \E ok \in BOOLEAN :
         IF ok THEN /\ fs_id' = StoreFsId
                    /\ mpc' = "lookup"
                    /\ UNCHANGED <<mret, proc>>
         ELSE GotoCleanupCred("resolve") /\ UNCHANGED fs_id
    /\ UNCHANGED <<opts, result>>
    /\ WalkUntouched

\* Lines 835-853: PVFS_sys_lookup gives the handle of the target.
Lookup ==
    /\ mpc = "lookup"
    /\ \E ok \in BOOLEAN :
         IF ok THEN /\ proc' = [proc EXCEPT !.startup = "ok"]
                    /\ mpc' = "start"
                    /\ UNCHANGED mret
         ELSE GotoCleanupCred("lookup")
    /\ UNCHANGED <<opts, fs_id, result>>
    /\ WalkUntouched

\* cleanup_cred reached by goto (912-929): ret is -1 and logp is still NULL,
\* so fprintf(logp, ...) and fclose(logp) are called with it and are
\* undefined.  The process is killed by SIGSEGV, or the library refuses the
\* null stream and main returns 1; nothing is written to any log either way.
CleanupCred ==
    /\ mpc = "cleanup_cred"
    /\ proc.logp = "NULL"
    /\ \E status \in {128 + 11, ExitStatus(1)} :
         result' = [purge_success |-> "unset", exit_code |-> status]
    /\ proc' = UseStream(proc)
    /\ mpc' = "done"
    /\ UNCHANGED <<opts, fs_id, mret>>
    /\ WalkUntouched

\* main up to the call of the walker at line 900 (all start-up steps succeed).
MainStart ==
    /\ mpc = "start"
    /\ removal_basis_time' = BasisTime(opts, StartTime)
    /\ stack' = <<NewFrame(TargetDir, [handle |-> RootHandle, fs_id |-> fs_id])>>
    /\ proc' = UseStream([proc EXCEPT !.logp = fopen(proc.log_ok),
                                      !.log = HeaderLines])
    /\ mpc' = "walk"
    /\ UNCHANGED <<sh, opts, fs_id, pstats, mret, result, store, calls, faults,
                   outcome, unwound, prev>>

\* Mutant: the failure branch returns 0 too.
MainResult_ExitZero(ret) ==
    IF ret = 0
    THEN [purge_success |-> "true", exit_code |-> 0]
    ELSE [purge_success |-> "false", exit_code |-> 0]

\* Lines 918-929.
MainResult(ret) ==
    IF ret = 0
    THEN [purge_success |-> "true", exit_code |-> 0]
    ELSE [purge_success |-> "false", exit_code |-> 1]

\* Mutant: the report is written only after a walk that succeeded.
WriteReport_OnlyOnSuccess(log, ret) ==
    IF ret = 0
    THEN log \o ReportLines \o <<SuccessLine(MainResult(ret).purge_success)>>
    ELSE log \o <<SuccessLine(MainResult(ret).purge_success)>>

\* The log after lines 902-926: the report's lines, whatever ret is, and
\* then the purge_success line.
WriteReport(log, ret) ==
    log \o ReportLines \o <<SuccessLine(MainResult(ret).purge_success)>>

\* main after the walker has returned: the report and the exit.
MainFinish ==
    /\ mpc = "report"
    /\ result' = MainResult(mret)
    /\ proc' = UseStream([proc EXCEPT !.log = WriteReport(@, mret),
                                      !.report = Report(pstats)])
    /\ mpc' = "done"
    /\ UNCHANGED <<sh, opts, fs_id, removal_basis_time, pstats, stack, mret, store,
                   calls, faults, outcome, unwound, prev>>

-----------------------------------------------------------------------------
(* walk_rdp_and_purge *)

\* The arguments of the PVFS_sys_readdirplus call of lines 495-501.
ListRequest(f) ==
    [ref |-> f.dir_ref, token |-> f.token,
     count |-> PVFS_REQ_LIMIT_DIRENT_COUNT_READDIRPLUS]

\* PVFS_sys_readdirplus succeeds (lines 495-516): the store answers with the
\* next dirents, at most the requested count, and the end marker with the last.
ReaddirplusOk ==
    /\ mpc = "walk" /\ stack # <<>> /\ Top.pc = "readdir"
    /\ LET req == ListRequest(Top)
           kids == Children(req.ref.handle)
           pos == req.token
       IN \E newpos \in pos..Len(kids) :
            /\ newpos > pos \/ pos = Len(kids)
            /\ LET batch == Listed(store, kids, pos, newpos)
                   f == [Top EXCEPT !.batch = batch,
                                    !.resp_token = IF newpos = Len(kids)
                                                   THEN PVFS_ITERATE_END
                                                   ELSE newpos,
                                    !.ret = 0, !.i = 0, !.asked = TRUE,
                                    !.arrays_alloc = (batch # <<>>)]
               IN /\ Len(batch) <= req.count
                  /\ stack' = SetTop(NextEntry(f))
    /\ calls' = [calls EXCEPT !.list = @ + 1]
    /\ UNCHANGED <<sh, opts, fs_id, removal_basis_time, pstats, mpc, mret, result,
                   store, faults, outcome, unwound, prev, proc>>

\* Mutant: a failed listing call is made again.
ListFailed_Retry(f) == f

\* The frame after PVFS_sys_readdirplus failed (lines 504-512): ret = -1,
\* goto cleanup.
ListFailed(f) == cleanup([f EXCEPT !.ret = -1, !.asked = TRUE])

\* PVFS_sys_readdirplus fails (lines 504-512).
ReaddirplusFail ==
    /\ mpc = "walk" /\ stack # <<>> /\ Top.pc = "readdir"
    /\ stack' = SetTop(ListFailed(Top))
    /\ calls' = [calls EXCEPT !.list = @ + 1]
    /\ faults' = [faults EXCEPT !.list = @ + 1]
    /\ UNCHANGED <<sh, opts, fs_id, removal_basis_time, pstats, mpc, mret, result,
                   store, outcome, unwound, prev, proc>>

\* sys_attr_to_stat fails (lines 532-541): ret = -1, goto cleanup.
ClassifyFail ==
    /\ InEntry
    /\ CurStat.ret < 0
    /\ stack' = SetTop(cleanup([Top EXCEPT !.ret = -1]))
    /\ faults' = [faults EXCEPT !.classify = @ + 1]
    /\ outcome' = [outcome EXCEPT ![CurSlot] = "classify_failed"]
    /\ UNCHANGED <<sh, opts, fs_id, removal_basis_time, pstats, mpc, mret, result,
                   store, calls, unwound, prev, proc>>

\* Mutant: the else of line 590 is missing, a removed file is counted as
\* kept as well.
CountRemoved_AlsoKept(ps, size) ==
    [ps EXCEPT !.rm_fils = @ + 1, !.rm_bytes = @ + size,
               !.kept_fils = @ + 1, !.kept_bytes = @ + size]

\* The counters after a file of the given size was removed, failed, kept.
CountRemoved(ps, size) ==
    [ps EXCEPT !.rm_fils = @ + 1, !.rm_bytes = @ + size]

\* Mutant: the continue of line 585 is missing, the file is counted as removed too.
CountFailed_AlsoRemoved(ps, size) ==
    [ps EXCEPT !.frm_fils = @ + 1, !.frm_bytes = @ + size,
               !.rm_fils = @ + 1, !.rm_bytes = @ + size]

\* Mutant: a file that could not be removed is counted as kept.
CountFailed_AsKept(ps, size) ==
    [ps EXCEPT !.kept_fils = @ + 1, !.kept_bytes = @ + size]

CountFailed(ps, size) ==
    [ps EXCEPT !.frm_fils = @ + 1, !.frm_bytes = @ + size]

\* Mutant: counting a kept file starts the statistics afresh.
CountKept_Reset(ps, size) ==
    [ZeroStats EXCEPT !.kept_fils = 1, !.kept_bytes = size]

CountKept(ps, size) ==
    [ps EXCEPT !.kept_fils = @ + 1, !.kept_bytes = @ + size]

\* A line of the log about a file: R or K and the path, and how many remove
\* calls the run had made when the line was written.
FileLine(tag, path, n) == [tag |-> tag, path |-> path, removes |-> n]

\* Mutant: in a dry run no file is logged as removed.
LogRemoved_NotInDryRun(o, p, path, n) ==
    IF o.log_removed_files /\ ~o.dry_run
    THEN UseStream([p EXCEPT !.log = Append(@, "R"),
                             !.flines = Append(@, FileLine("R", path, n))])
    ELSE p

\* Lines 564-567, which come before the dry-run test and the remove call.
LogRemoved(o, p, path, n) ==
    IF o.log_removed_files
    THEN UseStream([p EXCEPT !.log = Append(@, "R"),
                             !.flines = Append(@, FileLine("R", path, n))])
    ELSE p

\* Lines 595-598.
LogKept(o, p, path, n) ==
    IF o.log_kept_files
    THEN UseStream([p EXCEPT !.log = Append(@, "K"),
                             !.flines = Append(@, FileLine("K", path, n))])
    ELSE p

\* Mutant: the dry-run test of line 569 is missing.
CallsRemove_Always(o) == TRUE

\* Whether the walker calls PVFS_sys_remove for an eligible file (line 569).
CallsRemove(o) == ~o.dry_run

\* An eligible regular file in a dry run (lines 561-569, 589-590).
FileDryRun ==
    /\ InEntry
    /\ CurStat.ret = 0 /\ CurStat.st_mode = "S_IFREG"
    /\ Eligible(CurStat)
    /\ ~CallsRemove(opts)
    /\ proc' = LogRemoved(opts, proc, Entered.dirent_path, Len(calls.remove))
    /\ pstats' = CountRemoved(pstats, CurStat.st_size)
    /\ stack' = SetTop(NextEntry([Entered EXCEPT !.ret = CurStat.ret]))
    /\ outcome' = [outcome EXCEPT ![CurSlot] = "removed"]
    /\ UNCHANGED <<sh, opts, fs_id, removal_basis_time, mpc, mret, result, store,
                   calls, faults, unwound, prev>>

\* An eligible regular file, PVFS_sys_remove succeeds (lines 569-590).
FileRemoveOk ==
    /\ InEntry
    /\ CurStat.ret = 0 /\ CurStat.st_mode = "S_IFREG"
    /\ Eligible(CurStat)
    /\ CallsRemove(opts)
    /\ store' = [store EXCEPT ![CurSlot].present = FALSE]
    /\ calls' = [calls EXCEPT !.remove = Append(@, RemoveCall)]
    /\ proc' = LogRemoved(opts, proc, Entered.dirent_path, Len(calls.remove))
    /\ pstats' = CountRemoved(pstats, CurStat.st_size)
    /\ stack' = SetTop(NextEntry([Entered EXCEPT !.ret = 0]))
    /\ outcome' = [outcome EXCEPT ![CurSlot] = "removed"]
    /\ UNCHANGED <<sh, opts, fs_id, removal_basis_time, mpc, mret, result, faults,
                   unwound, prev>>

\* What ret holds when the walker goes on after a failed PVFS_sys_remove:
\* the error code of the call (lines 571-585 leave it in ret).
RetAfterRemoveFailure(err) == err

\* An eligible regular file, PVFS_sys_remove fails (lines 575-586): count it
\* as failed and continue with the next entry.
FileRemoveFail ==
    /\ InEntry
    /\ CurStat.ret = 0 /\ CurStat.st_mode = "S_IFREG"
    /\ Eligible(CurStat)
    /\ CallsRemove(opts)
    /\ \E err \in {-2} :
         stack' = SetTop(NextEntry([Entered EXCEPT !.ret = RetAfterRemoveFailure(err)]))
    /\ calls' = [calls EXCEPT !.remove = Append(@, RemoveCall)]
    /\ faults' = [faults EXCEPT !.remove = @ + 1]
    /\ proc' = LogRemoved(opts, proc, Entered.dirent_path, Len(calls.remove))
    /\ pstats' = CountFailed(pstats, CurStat.st_size)
    /\ outcome' = [outcome EXCEPT ![CurSlot] = "failed"]
    /\ UNCHANGED <<sh, opts, fs_id, removal_basis_time, mpc, mret, result, store,
                   unwound, prev>>

\* A regular file that is not eligible (lines 593-602).
FileKept ==
    /\ InEntry
    /\ CurStat.ret = 0 /\ CurStat.st_mode = "S_IFREG"
    /\ ~Eligible(CurStat)
    /\ proc' = LogKept(opts, proc, Entered.dirent_path, Len(calls.remove))
    /\ pstats' = CountKept(pstats, CurStat.st_size)
    /\ stack' = SetTop(NextEntry([Entered EXCEPT !.ret = CurStat.ret]))
    /\ outcome' = [outcome EXCEPT ![CurSlot] = "kept"]
    /\ UNCHANGED <<sh, opts, fs_id, removal_basis_time, mpc, mret, result, store,
                   calls, faults, unwound, prev>>

\* Mutant: a directory is counted twice.
CountDir_Twice(ps) == [ps EXCEPT !.dirs = @ + 2]

\* pstats.dirs++ of line 616.
CountDir(ps) == [ps EXCEPT !.dirs = @ + 1]

\* Mutant: the subdirectory is put aside to be walked once the caller is
\* through with its own entries.
Recurse_Deferred(caller, callee) ==
    <<callee>> \o SetTop(NextEntry(caller))

\* The call of line 618: the caller waits in its for loop and the callee's
\* frame is the innermost one until it returns.
Recurse(caller, callee) ==
    Append(SetTop([caller EXCEPT !.pc = "call"]), callee)

\* A directory (lines 613-618): count it and recurse with the dirent's reference.
Directory ==
    /\ InEntry
    /\ CurStat.ret = 0 /\ CurStat.st_mode = "S_IFDIR"
    /\ pstats' = CountDir(pstats)
    /\ stack' = Recurse([Entered EXCEPT !.ret = CurStat.ret],
                        NewFrame(Entered.dirent_path, CurRef))
    /\ outcome' = [outcome EXCEPT ![CurSlot] = "dir"]
    /\ UNCHANGED <<sh, opts, fs_id, removal_basis_time, mpc, mret, result, store,
                   calls, faults, unwound, prev, proc>>

\* A symlink (lines 625-629).
Symlink ==
    /\ InEntry
    /\ CurStat.ret = 0 /\ CurStat.st_mode = "S_IFLNK"
    /\ pstats' = [pstats EXCEPT !.lnks = @ + 1]
    /\ stack' = SetTop(NextEntry([Entered EXCEPT !.ret = CurStat.ret]))
    /\ outcome' = [outcome EXCEPT ![CurSlot] = "lnk"]
    /\ UNCHANGED <<sh, opts, fs_id, removal_basis_time, mpc, mret, result, store,
                   calls, faults, unwound, prev, proc>>

\* An entry of no recognized type (lines 630-637).
Unknown ==
    /\ InEntry
    /\ CurStat.ret = 0 /\ CurStat.st_mode = "NONE"
    /\ pstats' = [pstats EXCEPT !.unknown = @ + 1]
    /\ stack' = SetTop(NextEntry([Entered EXCEPT !.ret = CurStat.ret]))
    /\ outcome' = [outcome EXCEPT ![CurSlot] = "unknown"]
    /\ UNCHANGED <<sh, opts, fs_id, removal_basis_time, mpc, mret, result, store,
                   calls, faults, unwound, prev, proc>>

\* Mutant: the caller goes on with its next entry whatever the call returned.
AfterChild_GoOn(f, r) == NextEntry([f EXCEPT !.ret = r])

\* Mutant: the caller never resumes after the recursive call has returned.
AfterChild_Waits(f, r) == f

\* The caller's frame after the recursive call returned r (lines 618-624):
\* non-zero makes the caller return -1 at once, zero lets it go on.
AfterChild(f, r) ==
    IF r # 0
    THEN [f EXCEPT !.ret = -1, !.pc = "return"]
    ELSE NextEntry([f EXCEPT !.ret = r])

\* The buffers a frame has allocated and not freed: its dirent_path, and
\* the arrays of the response it holds (counted as one).
StillAllocated(f) ==
    (IF f.path_alloc THEN 1 ELSE 0) + (IF f.arrays_alloc THEN 1 ELSE 0)

\* A frame returns ret (cleanup at lines 667-671, or the return of line 622);
\* what it has not freed can be freed by no one.
WalkReturn ==
    /\ mpc = "walk" /\ stack # <<>> /\ Top.pc = "return"
    /\ LET r == Top.ret
           rest == SubSeq(stack, 1, Len(stack) - 1)
       IN /\ IF rest = <<>>
             THEN /\ stack' = <<>>
                  /\ mret' = r
                  /\ mpc' = "report"
             ELSE /\ stack' = [rest EXCEPT ![Len(rest)] = AfterChild(rest[Len(rest)], r)]
                  /\ UNCHANGED <<mret, mpc>>
          /\ unwound' = (unwound \/ r # 0)
    /\ proc' = [proc EXCEPT !.leaked = @ + StillAllocated(Top)]
    /\ UNCHANGED <<sh, opts, fs_id, removal_basis_time, pstats, result, store,
                   calls, faults, outcome, prev>>

\* The program is started again on the same store with the same -r value
\* (as a scheduling wrapper does), as a dry run or as a real purge.
Rerun ==
    /\ mpc = "done"
    /\ ~prev.run
    /\ prev' = [run |-> TRUE, dry_run |-> opts.dry_run, pstats |-> pstats,
                result |-> result, store |-> store]
    /\ \E d \in BOOLEAN : /\ opts' = [opts EXCEPT !.dry_run = d]
                          /\ proc' = Started(opts')
    /\ removal_basis_time' = 0
    /\ pstats' = ZeroStats
    /\ stack' = <<>>
    /\ mpc' = "start"
    /\ mret' = 0
    /\ result' = [purge_success |-> "unset", exit_code |-> -1]
    /\ calls' = [list |-> 0, remove |-> <<>>]
    /\ faults' = [list |-> 0, remove |-> 0, classify |-> 0]
    /\ outcome' = [s \in Slots |-> "none"]
    /\ unwound' = FALSE
    /\ UNCHANGED <<sh, fs_id, store>>

Next ==
    \/ MainStart
    \/ ReaddirplusOk
    \/ ReaddirplusFail
    \/ ClassifyFail
    \/ FileDryRun
    \/ FileRemoveOk
    \/ FileRemoveFail
    \/ FileKept
    \/ Directory
    \/ Symlink
    \/ Unknown
    \/ WalkReturn
    \/ MainFinish

Spec == Init /\ [][Next]_vars

\* The walker has just returned to main, with any counters a walk can leave
\* behind it: a pair's bytes are 0 as long as no file was counted in it.
NextStats == MainFinish

SpecStats == InitStats /\ [][NextStats]_vars

\* One run with any setting of the two logging options.
SpecLog == InitLog /\ [][Next]_vars

-----------------------------------------------------------------------------
(* orangefs-purge-user-dirs.sh *)

\* No orangefs-purge process is followed step by step in these runs.
InitWrapper ==
    /\ opts = [removal_basis_time |-> 0, dry_run |-> FALSE,
               log_removed_files |-> FALSE, log_kept_files |-> FALSE]
    /\ fs_id = PVFS_FS_ID_NULL
    /\ removal_basis_time = 0
    /\ pstats = ZeroStats
    /\ stack = <<>>
    /\ mpc = "main"
    /\ mret = 0
    /\ result = [purge_success |-> "unset", exit_code |-> -1]
    /\ store = [s \in Slots |-> SlotRec(s, IF s = 5 THEN "ABSENT" ELSE "METAFILE")]
    /\ calls = [list |-> 0, remove |-> <<>>]
    /\ faults = [list |-> 0, remove |-> 0, classify |-> 0]
    /\ outcome = [s \in Slots |-> "none"]
    /\ unwound = FALSE
    /\ prev = [run |-> FALSE]
    /\ proc = [Started(opts) EXCEPT !.startup = "pending"]
    /\ sh \in ShellStarts

ProgramUntouched ==
    UNCHANGED <<opts, fs_id, removal_basis_time, pstats, stack, mpc, mret,
                result, store, calls, faults, outcome, unwound, prev, proc>>

\* exit, and usage() of lines 944-948, which prints to stderr and exits.
ShExit(s, code) == [s EXCEPT !.pc = "exited", !.status = code]

\* Lines 987-991: must be run as root.
RootCheck ==
    /\ sh.pc = "root"
    /\ sh' = IF sh.EUID # 0 THEN ShExit(sh, 1) ELSE [sh EXCEPT !.pc = "binary"]
    /\ ProgramUntouched

\* Lines 1009-1016: the orangefs-purge binary must be executable.
BinaryCheck ==
    /\ sh.pc = "binary"
    /\ sh' = IF ~sh.purge_x THEN ShExit(sh, 1) ELSE [sh EXCEPT !.pc = "getopts"]
    /\ ProgramUntouched

\* Lines 1018-1046: the options.  -h is usage 0; an unknown option, or -e
\* with a file that is not a readable regular file, is usage 1; which of
\* them is met first depends on the order on the command line.
Getopts ==
    /\ sh.pc = "getopts"
    /\ \/ sh.h /\ sh' = ShExit(sh, 0)
       \/ sh.bad /\ sh' = ShExit(sh, 1)
       \/ sh.e /\ ~sh.efile_ok /\ sh' = ShExit(sh, 1)
       \/ /\ ~sh.h /\ ~sh.bad /\ ~(sh.e /\ ~sh.efile_ok)
          /\ sh' = [sh EXCEPT !.ANALYTICS_ENABLED = sh.a,
                              !.PURGE_TIME_THRESHOLD = IF sh.t = 0 THEN @ ELSE sh.t,
                              !.pc = "users_dir"]
    /\ ProgramUntouched

\* Lines 1048-1053: users_dir must be a readable directory.
UsersDirCheck ==
    /\ sh.pc = "users_dir"
    /\ sh' = IF ~sh.users_dir_ok THEN ShExit(sh, 1) ELSE [sh EXCEPT !.pc = "log_dir"]
    /\ ProgramUntouched

\* Lines 1055-1059: the log directory must exist with rwx permissions.
LogDirCheck ==
    /\ sh.pc = "log_dir"
    /\ sh' = IF ~sh.log_dir_ok THEN ShExit(sh, 1) ELSE [sh EXCEPT !.pc = "setup"]
    /\ ProgramUntouched

\* Lines 1061-1076: START_TIME and REMOVAL_BASIS_TIME are computed once,
\* read-only, and the log directory of the run is made.
Setup ==
    /\ sh.pc = "setup"
    /\ sh' = [sh EXCEPT !.START_TIME = sh.clock,
                        !.REMOVAL_BASIS_TIME = sh.clock - sh.PURGE_TIME_THRESHOLD,
                        !.pc = "find"]
    /\ ProgramUntouched

\* Mutant: the exclusions are not handed to find.
Excluded_None(s) == {}

\* The directories find leaves out (lines 1078-1096): those named in the
\* exclusions file, if it is readable, that are directories.
Excluded(s) == IF s.efile_ok THEN s.excl \cap s.dirs ELSE {}

\* Lines 1078-1101: find writes the directories one level below users_dir,
\* less the exclusions, to the users-dirs file.
FindUserDirs ==
    /\ sh.pc = "find"
    /\ LET ex == SortLines(Excluded(sh))
           file == sh.dirs \ Excluded(sh)
       IN sh' = [sh EXCEPT !.out = @ \o [k \in 1..Len(ex) |->
                                             OutLine(1, "excluding", ex[k])],
                           !.users_dirs = file,
                           !.listed = TRUE,
                           !.todo = HereLines(file),
                           !.pc = "loop"]
    /\ ProgramUntouched

\* Mutant: the basis is worked out anew from the clock for every purge.
BasisArg_Now(s) == s.clock - s.PURGE_TIME_THRESHOLD

\* --removal-basis-time=${REMOVAL_BASIS_TIME} of line 1114.
BasisArg(s) == s.REMOVAL_BASIS_TIME

\* Mutant: only the exit status 1 counts as a failed purge.
PurgeFailed_OnlyOne(status) == status = 1

\* The test of line 1119.
PurgeFailed(status) == status # 0

\* Lines 1110-1123, one turn of the loop: orangefs-purge is run on the next
\* line with the removal-basis time of the run, and FAILED is printed and
\* the error remembered if its exit status is not 0.
PurgeOne ==
    /\ sh.pc = "loop"
    /\ LET dir == Head(sh.todo)
       IN \E status \in PurgeExitCodes :
            sh' = [sh EXCEPT
                     !.runs = Append(@, [dir |-> dir,
                                         basis |-> BasisArg(sh),
                                         status |-> status]),
                     !.out = @ \o <<OutLine(1, "purging", dir)>>
                               \o IF PurgeFailed(status)
                                  THEN <<OutLine(2, "FAILED", dir)>> ELSE <<>>,
                     !.purge_error_encountered = @ \/ PurgeFailed(status),
                     !.clock = @ + 1,
                     !.todo = Tail(@),
                     !.pc = IF Tail(sh.todo) = <<>> THEN "analytics" ELSE "loop"]
    /\ ProgramUntouched

\* Lines 1125-1149: the analytics script, if -a was given.
Analytics ==
    /\ sh.pc = "analytics"
    /\ IF ~sh.ANALYTICS_ENABLED
       THEN sh' = [sh EXCEPT !.out = Append(@, OutLine(1, "ANALYTICS_ENABLED false", NoDir)),
                             !.pc = "finish"]
       ELSE IF ~sh.logs2df_x
       THEN sh' = ShExit([sh EXCEPT !.out = Append(@, OutLine(1, "ANALYTICS_ENABLED true", NoDir))],
                         1)
       ELSE \E ok \in BOOLEAN :
              sh' = [sh EXCEPT
                       !.out = @ \o <<OutLine(1, "ANALYTICS_ENABLED true", NoDir),
                                      OutLine(1, IF ok THEN "ANALYTICS_SUCCESS true"
                                                 ELSE "ANALYTICS_SUCCESS false", NoDir)>>,
                       !.analytics_error_encountered = ~ok,
                       !.pc = "finish"]
    /\ ProgramUntouched

\* Mutant: a failed purge does not show in the exit status.
FinishStatus_IgnoresPurge(purge_error, analytics_error) ==
    IF analytics_error THEN 1 ELSE 0

\* Lines 1156-1159, and the status 0 of the script's last command otherwise.
FinishStatus(purge_error, analytics_error) ==
    IF purge_error \/ analytics_error THEN 1 ELSE 0

\* Lines 1151-1159.
Finish ==
    /\ sh.pc = "finish"
    /\ sh' = ShExit(sh, FinishStatus(sh.purge_error_encountered,
                                     sh.analytics_error_encountered))
    /\ ProgramUntouched

NextWrapper ==
    \/ RootCheck
    \/ BinaryCheck
    \/ Getopts
    \/ UsersDirCheck
    \/ LogDirCheck
    \/ Setup
    \/ FindUserDirs
    \/ PurgeOne
    \/ Analytics
    \/ Finish

SpecWrapper == InitWrapper /\ [][NextWrapper]_vars

\* The program has one thread and every call to the store returns: a step
\* that can be taken is taken.
SpecLive == Spec /\ WF_vars(Next)

\* Two runs, one after the other, on the same store.
NextRerun == Next \/ Rerun

SpecRerun == Init /\ [][NextRerun]_vars

-----------------------------------------------------------------------------
(* The path buffer of a frame, byte by byte *)

\* The byte that ends a C string.
NUL == ""

\* The longest entry name, and how many bytes the shortest of the long
\* parent paths leaves free in the buffer, in the runs on the path buffer.
MaxName == 3
MaxSlack == 3

\* n bytes c.
Fill(c, n) == [k \in 1..n |-> c]

\* strlen of the bytes b: the number of bytes before the first NUL; when b
\* holds no NUL the string runs out of b.
strlen(b) ==
    IF \E k \in 1..Len(b) : b[k] = NUL
    THEN (CHOOSE k \in 1..Len(b) :
             b[k] = NUL /\ \A j \in 1..(k - 1) : b[j] # NUL) - 1
    ELSE Len(b)

\* The int n passed as a size_t: a negative n becomes 2^64 + n (over), which
\* is more than any buffer holds.
size_t(n) == [over |-> n < 0, n |-> IF n < 0 THEN 0 ELSE n]

\* calloc(1, n): n zeroed bytes on the heap, nothing written outside them.
calloc(n) == [buf |-> Fill(NUL, n), oob |-> FALSE]

\* The bytes are stored at the offsets off, off + 1, ... of the buffer;
\* oob: some byte was stored outside the buffer.
Store(m, off, bytes) ==
    [buf |-> [k \in 1..Len(m.buf) |->
                IF k - 1 >= off /\ k - 1 < off + Len(bytes)
                THEN bytes[k - off] ELSE m.buf[k]],
     oob |-> m.oob \/ (Len(bytes) > 0 /\
                        (off < 0 \/ off + Len(bytes) > Len(m.buf)))]

\* The bytes a call that writes n bytes puts into the buffer from offset
\* off on, and whether it goes on past the end of the buffer.
Within(m, off, n) ==
    LET room == IF off > Len(m.buf) THEN 0 ELSE Len(m.buf) - off
    IN  [count |-> IF n.over \/ n.n > room THEN room ELSE n.n,
         past |-> n.over \/ n.n > room]

\* memset(&buf[off], c, n).
memset(m, off, c, n) ==
    LET w == Within(m, off, n)
    IN  [Store(m, off, Fill(c, w.count)) EXCEPT !.oob = @ \/ w.past]

\* strncpy(&buf[off], src, n): exactly n bytes are written, the characters
\* of src and then NULs.
strncpy_at(m, off, src, n) ==
    LET w == Within(m, off, n)
    IN  [Store(m, off, [k \in 1..w.count |->
                          IF k <= Len(src) THEN src[k] ELSE NUL])
            EXCEPT !.oob = @ \/ w.past]

\* The parent paths: the target directory of the other runs and the paths
\* that leave 0..MaxSlack bytes of the buffer free behind their NUL.
ParentPaths ==
    {TargetDir} \cup
    {<<"/">> \o Fill("p", PVFS_PATH_MAX - 2 - k) : k \in 0..MaxSlack}

\* The listings: one or two entries with names of 1..MaxName characters.
EntryNames ==
    {<<Fill("x", a)>> : a \in 1..MaxName} \cup
    {<<Fill("x", a), Fill("y", b)>> : a \in 1..MaxName, b \in 1..MaxName}

\* The frame of walk_rdp_and_purge(path, ...) as far as dirent_path is
\* concerned; names are the d_name of the entries it is going to see.
PathFrame(path, names) ==
    [path |-> path, names |-> names, dir_len |-> 0, i |-> 0, pc |-> "enter",
     mem |-> [buf |-> <<>>, oob |-> FALSE]]

\* The only frame of these runs.
PF == stack[1]

PathStep(f) ==
    /\ stack' = <<f>>
    /\ UNCHANGED <<sh, opts, fs_id, removal_basis_time, pstats, mpc, mret,
                   result, store, calls, faults, outcome, unwound, prev, proc>>

\* Lines 482-484: dir_len, the buffer and the copy of path.
PathEnter ==
    /\ PF.pc = "enter"
    /\ PathStep([PF EXCEPT
          !.dir_len = ToShort(strlen(PF.path)),
          !.mem = strncpy_at(calloc(PVFS_PATH_MAX), 0, PF.path,
                             size_t(PVFS_PATH_MAX - 1)),
          !.i = 1, !.pc = "memset"])

\* Line 544.
PathZero ==
    /\ PF.pc = "memset"
    /\ PF.i <= Len(PF.names)
    /\ PathStep([PF EXCEPT
          !.mem = memset(@, PF.dir_len, NUL, size_t(PVFS_PATH_MAX - PF.dir_len)),
          !.pc = "slash"])

\* Line 547.
PathSlash ==
    /\ PF.pc = "slash"
    /\ PathStep([PF EXCEPT !.mem = Store(@, PF.dir_len, <<"/">>),
                            !.pc = "name"])

\* Lines 550-552.  A copy that runs past the end of the buffer is undefined:
\* the process is killed, or it goes on with whatever the heap now holds.
PathName ==
    /\ PF.pc = "name"
    /\ LET m == strncpy_at(PF.mem, PF.dir_len + 1, PF.names[PF.i],
                           size_t(PATH_MAX - 1 - PF.dir_len - 1))
       IN  \E next \in IF m.oob THEN {"crashed", "memset"} ELSE {"memset"} :
             PathStep([PF EXCEPT !.mem = m, !.i = @ + 1, !.pc = next])

\* Lines 667-671 after the last entry.
PathReturn ==
    /\ PF.pc = "memset"
    /\ PF.i > Len(PF.names)
    /\ PathStep([PF EXCEPT !.pc = "return"])

InitPath ==
    /\ opts = [removal_basis_time |-> 0, dry_run |-> TRUE,
               log_removed_files |-> FALSE, log_kept_files |-> FALSE]
    /\ fs_id = StoreFsId
    /\ removal_basis_time = BasisTime(opts, StartTime)
    /\ pstats = ZeroStats
    /\ stack \in {<<PathFrame(p, n)>> : p \in ParentPaths, n \in EntryNames}
    /\ mpc = "walk"
    /\ mret = 0
    /\ result = [purge_success |-> "unset", exit_code |-> -1]
    /\ store = [s \in Slots |-> SlotRec(s, "METAFILE")]
    /\ calls = [list |-> 0, remove |-> <<>>]
    /\ faults = [list |-> 0, remove |-> 0, classify |-> 0]
    /\ outcome = [s \in Slots |-> "none"]
    /\ unwound = FALSE
    /\ prev = [run |-> FALSE]
    /\ proc = [Started(opts) EXCEPT !.logp = fopen(TRUE), !.log = HeaderLines]
    /\ sh = NoShell

NextPath ==
    \/ PathEnter
    \/ PathZero
    \/ PathSlash
    \/ PathName
    \/ PathReturn

\* The path building of one frame, for long parent paths.
SpecPath == InitPath /\ [][NextPath]_vars

-----------------------------------------------------------------------------
(* walk_rdp_and_purge called with any arguments *)

\* The arguments a caller can pass for path and dir_refp: NULL, or the
\* address (at) of a value.
PathArgs ==
    {[null |-> TRUE, at |-> <<>>], [null |-> FALSE, at |-> TargetDir]}
RefArgs ==
    {[null |-> TRUE, at |-> [handle |-> 0, fs_id |-> PVFS_FS_ID_NULL]],
     [null |-> FALSE, at |-> [handle |-> RootHandle, fs_id |-> StoreFsId]]}

\* Mutant: only the path is tested.
InvalidArguments_PathOnly(path, dir_refp) == path.null

\* The test of line 471.
InvalidArguments(path, dir_refp) == path.null \/ dir_refp.null

\* The frame after lines 463-489: with an invalid argument the locals hold
\* their initial values, ret is -1 and the function is about to return
\* (478); otherwise the frame is set up for its first listing request.
Enter(path, dir_refp) ==
    IF InvalidArguments(path, dir_refp)
    THEN [NewFrame(<<>>, dir_refp.at) EXCEPT !.pc = "return", !.ret = -1,
                                            !.path_alloc = FALSE]
    ELSE NewFrame(path.at, dir_refp.at)

\* The callee runs up to its while(1) loop or to the return of line 478.
WalkCall ==
    /\ mpc = "walk" /\ stack # <<>> /\ Top.pc = "called"
    /\ stack' = SetTop(Enter(Top.path, Top.dir_refp))
    /\ UNCHANGED <<sh, opts, fs_id, removal_basis_time, pstats, mpc, mret,
                   result, store, calls, faults, outcome, unwound, prev, proc>>

\* main is at line 900 with the log open and walk_rdp_and_purge(path,
\* dir_refp) has been called but has not run yet; the statistics are those
\* of a caller that has counted nothing yet or has just counted a directory.
InitCall ==
    /\ opts \in [removal_basis_time : 0..MaxTime, dry_run : BOOLEAN,
                 log_removed_files : {FALSE}, log_kept_files : {FALSE}]
    /\ fs_id = StoreFsId
    /\ removal_basis_time = BasisTime(opts, StartTime)
    /\ pstats \in {ZeroStats, CountDir(ZeroStats)}
    /\ stack \in {<<[pc |-> "called", path |-> p, dir_refp |-> r]>> :
                      p \in PathArgs, r \in RefArgs}
    /\ mpc = "walk"
    /\ mret = 0
    /\ result = [purge_success |-> "unset", exit_code |-> -1]
    /\ store \in Trees
    /\ calls = [list |-> 0, remove |-> <<>>]
    /\ faults = [list |-> 0, remove |-> 0, classify |-> 0]
    /\ outcome = [s \in Slots |-> "none"]
    /\ unwound = FALSE
    /\ prev = [run |-> FALSE]
    /\ proc = [Started(opts) EXCEPT !.logp = fopen(TRUE), !.log = HeaderLines]
    /\ sh = NoShell

NextCall ==
    \/ WalkCall
    \/ ReaddirplusOk
    \/ ReaddirplusFail
    \/ ClassifyFail
    \/ FileDryRun
    \/ FileRemoveOk
    \/ FileRemoveFail
    \/ FileKept
    \/ Directory
    \/ Symlink
    \/ Unknown
    \/ WalkReturn
    \/ MainFinish

SpecCall == InitCall /\ [][NextCall]_vars

\* One run followed from the entry of main, start-up steps included.
NextMain ==
    \/ NotRoot
    \/ Usage
    \/ ParseOptions
    \/ InitDefaults
    \/ GenCredential
    \/ StatTarget
    \/ Resolve
    \/ Lookup
    \/ CleanupCred
    \/ Next

SpecMain == InitMain /\ [][NextMain]_vars

-----------------------------------------------------------------------------
(* Vocabulary of the properties *)

\* The retention rule as the specification words it.
BothBefore(s) ==
    AttrAtime(s) < removal_basis_time /\ AttrMtime(s) < removal_basis_time

\* The entries the walker has dispatched by kind, and the regular files among them.
Processed == {s \in Slots : outcome[s] \notin {"none", "classify_failed"}}

ProcessedFiles == {s \in Processed : store[s].objtype = "METAFILE"}

\* The slots named in the remove calls of this run.
RemoveArgs == {calls.remove[k].name : k \in 1..Len(calls.remove)}

RECURSIVE SumSize(_)
SumSize(S) ==
    IF S = {} THEN 0
    ELSE LET s == CHOOSE x \in S : TRUE IN AttrSize(s) + SumSize(S \ {s})

\* The pair a processed regular file belongs to, read off the store and the options.
Expected(s) ==
    IF ~BothBefore(s) THEN "kept"
    ELSE IF opts.dry_run \/ ~store[s].present THEN "removed"
    ELSE "failed"

FilesOf(tag) == {s \in ProcessedFiles : Expected(s) = tag}

\* The walk and its report are over.
Done == mpc = "done"

Succeeded == Done /\ result = [purge_success |-> "true", exit_code |-> 0]

Failed == Done /\ result = [purge_success |-> "false", exit_code |-> 1]

\* Every entry of the tree has been dispatched (a removed file is gone).
AllProcessed ==
    \A s \in Slots : (store[s].present \/ outcome[s] = "removed") => s \in Processed

\* Nothing the walker does to the store or the statistics happens in this step.
WalkerIdle == UNCHANGED <<pstats, calls, outcome, store>>

-----------------------------------------------------------------------------
(* C1..C10 *)

\* C1: a regular file is treated as eligible for removal (removed, or tried
\* and failed) exactly when its access time and its modify time are both
\* strictly less than the removal-basis time; a time equal to the basis keeps it.
C1_EligibleIffBothBefore ==
    \A s \in Slots :
        /\ outcome[s] \in {"removed", "failed"} =>
               AttrAtime(s) < removal_basis_time /\ AttrMtime(s) < removal_basis_time
        /\ outcome[s] = "kept" =>
               AttrAtime(s) >= removal_basis_time \/ AttrMtime(s) >= removal_basis_time

C1_Witness ==
    /\ Done
    /\ \E s \in Slots : outcome[s] = "kept" /\ AttrAtime(s) = removal_basis_time
                          /\ AttrMtime(s) < removal_basis_time
    /\ \E s \in Slots : outcome[s] = "kept" /\ AttrMtime(s) = removal_basis_time
                          /\ AttrAtime(s) < removal_basis_time
    /\ \E s \in Slots : outcome[s] = "removed"

\* C2: PVFS_sys_remove is called only for a regular file whose two times are
\* both before the basis; a file read or written at or after the basis is
\* never passed to remove and is counted as kept.
C2_RemoveOnlyOld ==
    /\ \A k \in 1..Len(calls.remove) :
           LET s == calls.remove[k].name
           IN store[s].objtype = "METAFILE" /\ BothBefore(s)
    /\ \A s \in ProcessedFiles :
           ~BothBefore(s) => s \notin RemoveArgs /\ store[s].present
    /\ pstats.kept_fils = Cardinality({s \in ProcessedFiles : ~BothBefore(s)})

C2_Witness ==
    /\ Done /\ ~opts.dry_run
    /\ \E s \in ProcessedFiles : AttrAtime(s) < removal_basis_time
                                   /\ AttrMtime(s) > removal_basis_time
    /\ \E s \in ProcessedFiles : AttrAtime(s) > removal_basis_time
                                   /\ AttrMtime(s) < removal_basis_time
    /\ calls.remove # <<>>
    /\ pstats.kept_fils = 2

\* C3: a real purge whose only failures are remove failures reports
\* purge_success=true and exits 0.
C3_RemoveFailureNotFatal ==
    (Done /\ ~opts.dry_run /\ faults.list = 0 /\ faults.classify = 0) => Succeeded

\* C4: a removal failure is never handed to the parent level as an error, and
\* every remaining entry of the batch, the directory and the ancestors is
\* still processed.
C4_RemoveFailureStaysLocal ==
    (faults.list = 0 /\ faults.classify = 0) =>
        /\ \A k \in 2..Len(stack) : stack[k].pc = "return" => stack[k].ret = 0
        /\ Done => AllProcessed

\* C5: every processed regular file is in exactly one of the pairs removed,
\* failed-to-remove, kept, with 1 file and its size in bytes: kept if not
\* eligible, removed if eligible and dry run or remove succeeded, failed if
\* eligible and remove failed; so the three file counters add up to the
\* number of regular files visited.
C5_OnePairPerFile ==
    /\ pstats.rm_fils = Cardinality(FilesOf("removed"))
    /\ pstats.rm_bytes = SumSize(FilesOf("removed"))
    /\ pstats.frm_fils = Cardinality(FilesOf("failed"))
    /\ pstats.frm_bytes = SumSize(FilesOf("failed"))
    /\ pstats.kept_fils = Cardinality(FilesOf("kept"))
    /\ pstats.kept_bytes = SumSize(FilesOf("kept"))
    /\ pstats.rm_fils + pstats.frm_fils + pstats.kept_fils = Cardinality(ProcessedFiles)

C5_Witness ==
    /\ Done
    /\ pstats.rm_fils = 1 /\ pstats.frm_fils = 1 /\ pstats.kept_fils = 1
    /\ Cardinality(ProcessedFiles) = 3

\* C6: in a dry run PVFS_sys_remove is never called and the store keeps
\* every file.
C6_DryRunRemovesNothing ==
    /\ [](opts.dry_run => calls.remove = <<>>)
    /\ [][opts.dry_run => store' = store]_vars

C6_Witness ==
    /\ Done /\ opts.dry_run /\ ~prev.run
    /\ pstats.rm_fils >= 2
    /\ \A s \in Slots : outcome[s] = "removed" => store[s].present

\* A dry run that succeeded, then a real purge of the same store that succeeded.
DryThenReal ==
    /\ Done /\ prev.run
    /\ prev.dry_run /\ ~opts.dry_run
    /\ prev.result = [purge_success |-> "true", exit_code |-> 0]
    /\ Succeeded

\* C7 as stated: the removed and the kept counters of the two runs match.
C7_DryRunCountersMatch ==
    DryThenReal =>
        /\ pstats.rm_fils = prev.pstats.rm_fils
        /\ pstats.rm_bytes = prev.pstats.rm_bytes
        /\ pstats.kept_fils = prev.pstats.kept_fils
        /\ pstats.kept_bytes = prev.pstats.kept_bytes

\* C7, amended: the two runs take the same files for eligible and for kept:
\* the kept counters match, what the dry run counts as removed is what the
\* real purge counts as removed or failed to remove, and the removed counters
\* match when no remove call failed.
C7_DryRunSameClassification ==
    DryThenReal =>
        /\ pstats.kept_fils = prev.pstats.kept_fils
        /\ pstats.kept_bytes = prev.pstats.kept_bytes
        /\ pstats.rm_fils + pstats.frm_fils = prev.pstats.rm_fils
        /\ pstats.rm_bytes + pstats.frm_bytes = prev.pstats.rm_bytes
        /\ faults.remove = 0 =>
               /\ pstats.rm_fils = prev.pstats.rm_fils
               /\ pstats.rm_bytes = prev.pstats.rm_bytes

C7_Witness ==
    /\ DryThenReal
    /\ prev.pstats.rm_fils = 3
    /\ pstats.rm_fils = 2 /\ pstats.frm_fils = 1

\* The run is unwinding: the innermost frame is about to return non-zero and
\* every frame above it waits in its recursive call; main then has a
\* non-zero ret and reports failure.
Unwinding ==
    /\ mpc = "walk" =>
           /\ Top.pc = "return" /\ Top.ret # 0
           /\ \A k \in 1..(Len(stack) - 1) : stack[k].pc = "call"
    /\ mpc = "report" => mret # 0
    /\ Done => Failed

\* C8: after a failed listing call the level processes no further entry and
\* asks for no further batch, every enclosing level returns non-zero, and the
\* run is reported as failed.
C8_ListingFailureAborts ==
    /\ [](faults.list > 0 => Unwinding)
    /\ [][faults.list > 0 => WalkerIdle]_vars

C8_Witness ==
    /\ Done /\ faults.list > 0
    /\ Failed
    /\ outcome[2] = "dir" /\ outcome[5] = "dir"
    /\ outcome[3] = "none" /\ store[3].present

\* C9: once a recursive walk has returned non-zero, the caller and every
\* ancestor return failure without processing an entry, asking for a batch
\* or calling remove.
C9_RecursionFailureAborts ==
    /\ [](unwound => (mpc = "walk" => Top.pc = "return" /\ Top.ret = -1))
    /\ [](unwound => (mpc # "walk" => mret # 0))
    /\ [][unwound => WalkerIdle]_vars

C9_Witness ==
    /\ unwound /\ mpc = "walk" /\ Len(stack) = 1
    /\ outcome[2] = "dir" /\ outcome[5] = "dir"
    /\ Top.batch = <<2, 3, 4>> /\ Top.i = 1

\* The condition under which classification of an entry fails.
NullIdentifier(s) ==
    store[s].handle = PVFS_HANDLE_NULL \/ fs_id = PVFS_FS_ID_NULL

\* C10: an entry whose handle or filesystem id is null is neither removed nor
\* counted, its level stops, and the run is reported as failed.
C10_ClassificationFailureAborts ==
    /\ [](\A s \in Slots :
             (outcome[s] # "none" /\ NullIdentifier(s)) =>
                 /\ outcome[s] = "classify_failed"
                 /\ store[s].present /\ s \notin RemoveArgs
                 /\ Unwinding)
    /\ [](pstats.rm_fils + pstats.frm_fils + pstats.kept_fils + pstats.lnks
            + pstats.dirs + pstats.unknown = Cardinality(Processed))
    /\ [][faults.classify > 0 => WalkerIdle]_vars

C10_Witness ==
    /\ Done /\ Failed
    /\ fs_id # PVFS_FS_ID_NULL
    /\ outcome[2] = "dir"
    /\ outcome[5] = "classify_failed" /\ store[5].handle = PVFS_HANDLE_NULL
    /\ outcome[3] = "none"
    /\ pstats = [ZeroStats EXCEPT !.dirs = 1]

-----------------------------------------------------------------------------
(* C11..C20 *)

\* The entry the walker is about to dispatch is an object of the given type
\* whose classification succeeds.
Dispatching(objtype) ==
    /\ InEntry
    /\ ~NullIdentifier(CurSlot)
    /\ store[CurSlot].objtype = objtype

\* The frame on top of the stack after the step.
TopAfter == stack'[Len(stack')]

\* C11: PVFS_sys_remove is only ever called for a regular file, never for a
\* directory, a symlink or an entry of unknown kind; PVFS_sys_readdirplus is
\* only ever called on the target directory or on a directory object, never
\* on the handle of a symlink; and each symlink entry adds exactly one to the
\* symlink counter, which nothing else changes.
C11_OnlyFilesRemovedLinksNotFollowed ==
    [][/\ calls'.remove # calls.remove => Dispatching("METAFILE")
       /\ calls'.list # calls.list =>
            \/ Top.dir_ref.handle = RootHandle
            \/ store[Top.dir_ref.handle].objtype = "DIRECTORY"
       /\ Dispatching("SYMLINK") =>
            /\ pstats' = [pstats EXCEPT !.lnks = @ + 1]
            /\ calls' = calls /\ store' = store
            /\ Len(stack') = Len(stack)
       /\ ~Dispatching("SYMLINK") => pstats'.lnks = pstats.lnks
       /\ \A s \in Slots :
            store[s].objtype # "METAFILE" => store'[s].present = store[s].present
      ]_vars

C11_Witness ==
    /\ Succeeded
    /\ outcome[2] = "dir" /\ outcome[5] = "unknown"
    /\ outcome[3] = "lnk" /\ store[3].present
    /\ outcome[4] = "removed" /\ RemoveArgs = {4}
    /\ pstats.lnks = 1

\* C12: the directories counter always equals the number of directory
\* entries the walker has met, each counted once when it is met and before
\* its recursive walk, so a directory whose walk fails is counted too, in a
\* run that ends in failure as in one that succeeds.
C12_DirsCountedOnce ==
    /\ [](pstats.dirs = Cardinality({s \in Slots : outcome[s] = "dir"}))
    /\ [](\A s \in Processed : outcome[s] = "dir" <=> store[s].objtype = "DIRECTORY")
    /\ [][IF Dispatching("DIRECTORY")
          THEN pstats' = [pstats EXCEPT !.dirs = @ + 1]
          ELSE pstats'.dirs = pstats.dirs]_vars

C12_Witness ==
    /\ Failed
    /\ outcome[2] = "dir" /\ outcome[5] = "classify_failed"
    /\ outcome[3] = "none"
    /\ pstats.dirs = 1

\* C19: an entry of no recognized kind adds exactly one to the unknown
\* counter and changes nothing else: no store call, no recursion, ret stays 0
\* and the loop goes on with the next entry of the batch; a run in which no
\* call failed ends in success whatever unknown entries it met.
C19_UnknownCountedWalkGoesOn ==
    /\ [][Dispatching("DATAFILE") =>
            /\ pstats' = [pstats EXCEPT !.unknown = @ + 1]
            /\ calls' = calls /\ store' = store
            /\ Len(stack') = Len(stack)
            /\ TopAfter.ret = 0
            /\ IF Top.i < Len(Top.batch)
               THEN TopAfter.pc = "entry" /\ TopAfter.i = Top.i + 1
               ELSE TopAfter.pc \in {"readdir", "return"}]_vars
    /\ []((Done /\ faults = [list |-> 0, remove |-> 0, classify |-> 0])
             => Succeeded)

C19_Witness ==
    /\ Succeeded
    /\ outcome[3] = "unknown" /\ store[3].present
    /\ outcome[4] \in {"kept", "removed"}
    /\ pstats.unknown = 1

\* A first run on this store was a real purge, ended in success and removed
\* every file it found eligible.
FirstRunPurgedAll ==
    /\ prev.run /\ ~prev.dry_run
    /\ prev.result = [purge_success |-> "true", exit_code |-> 0]
    /\ prev.pstats.frm_fils = 0

\* C13: after a real purge that ended in success with no failed removal, a
\* second run on the same store with the same removal-basis time, dry or
\* real, makes no PVFS_sys_remove call, finds no file eligible
\* (removed_files and failed_removed_files stay 0) and leaves the store as
\* the first run left it.
C13_SecondRunRemovesNothing ==
    FirstRunPurgedAll =>
        /\ calls.remove = <<>>
        /\ pstats.rm_fils = 0 /\ pstats.rm_bytes = 0
        /\ pstats.frm_fils = 0
        /\ store = prev.store

C13_Witness ==
    /\ FirstRunPurgedAll
    /\ prev.pstats.rm_fils = 3
    /\ Succeeded /\ ~opts.dry_run
    /\ pstats = [ZeroStats EXCEPT !.dirs = 1]
    /\ \A s \in {3, 4, 5} : ~store[s].present

\* The basis as main computed it before the walk, from the time it started.
BasisAtStart == BasisTime(opts, StartTime)

\* C14: from the call of the walker to the end of the run the removal-basis
\* time is the value main computed before the walk and no step changes it;
\* every regular file, at every depth, is found eligible or not against that
\* one value, whatever the clock reads when its turn comes.
C14_BasisFixedDuringWalk ==
    /\ [](mpc \in {"walk", "report", "done"} => removal_basis_time = BasisAtStart)
    /\ [][mpc = "walk" => removal_basis_time' = removal_basis_time]_vars
    /\ [](\A s \in ProcessedFiles :
             outcome[s] \in {"removed", "failed"} <=>
                 (AttrAtime(s) < BasisAtStart /\ AttrMtime(s) < BasisAtStart))

\* A file two levels down is kept against the basis of the start although
\* the clock has since passed the point where a fresh basis would remove it.
C14_Witness ==
    /\ Succeeded
    /\ opts.removal_basis_time = 0
    /\ outcome[2] = "dir" /\ outcome[5] = "kept"
    /\ outcome[4] = "removed"
    /\ AttrAtime(5) < Now - THIRTYONE_DAYS_SECS
    /\ AttrMtime(5) < Now - THIRTYONE_DAYS_SECS

\* The number a string of decimal digits denotes.
RECURSIVE DecimalValue(_)
DecimalValue(text) ==
    IF text = <<>> THEN 0
    ELSE 10 * DecimalValue(SubSeq(text, 1, Len(text) - 1))
           + DigitVal(text[Len(text)])

IsNumeral(text) == text # <<>> /\ \A k \in 1..Len(text) : text[k] \in DigitChars

\* main has parsed its command line and environment and gone on.
OptionsParsed == proc.euid = 0 /\ ~proc.h /\ proc.dir /\ mpc # "main"

\* main has computed the removal-basis time and called the walker.
WalkStarted == proc.startup = "ok" /\ mpc \in {"walk", "report", "done"}

EnvNonZero ==
    proc.DRY_RUN.given /\ IsNumeral(proc.DRY_RUN.text)
        /\ DecimalValue(proc.DRY_RUN.text) # 0

EnvZero ==
    proc.DRY_RUN.given /\ IsNumeral(proc.DRY_RUN.text)
        /\ DecimalValue(proc.DRY_RUN.text) = 0

\* C16: the run is a dry run if -d was given or DRY_RUN is a non-zero
\* integer; with -d it is a dry run whatever DRY_RUN holds; without -d and
\* with DRY_RUN unset or 0 it is a real purge.  A dry run makes no remove
\* call, a real purge calls PVFS_sys_remove for each file it counts removed.
C16_DryRunFlagOrEnv ==
    OptionsParsed =>
        /\ (proc.d \/ EnvNonZero) => opts.dry_run
        /\ (~proc.d /\ (~proc.DRY_RUN.given \/ EnvZero)) => ~opts.dry_run
        /\ opts.dry_run => calls.remove = <<>>
        /\ ~opts.dry_run =>
             \A s \in Slots : outcome[s] = "removed" => s \in RemoveArgs

\* DRY_RUN=1 alone makes a dry run; the file stays in the store.
C16_Witness ==
    /\ Succeeded /\ OptionsParsed
    /\ ~proc.d /\ proc.DRY_RUN = [given |-> TRUE, text |-> <<"1">>]
    /\ opts.dry_run
    /\ outcome[4] = "removed" /\ store[4].present
    /\ calls.remove = <<>>

\* getopt_long met -h, --help, -? or an option it does not know.
UsageAsked == proc.euid = 0 /\ proc.h

\* Every start-up step succeeded and the walk returned 0.
RunSucceeded == proc.startup = "ok" /\ mret = 0

\* C17 as stated: the exit status is 0 exactly when all start-up steps
\* succeeded and the walk returned success.
C17_ExitZeroIffRunSucceeded ==
    Done => (result.exit_code = 0 <=> RunSucceeded)

\* C17: the exit status is 0 exactly when the usage text was asked for, or
\* all start-up steps succeeded and the walk returned success; every fatal
\* failure (not root, no target argument, store initialisation, credential,
\* lstat, not a directory, resolve, lookup, walk returning non-zero) ends the
\* process with a non-zero status.
C17_ExitZeroIffUsageOrRunSucceeded ==
    Done =>
        /\ result.exit_code \in 0..255
        /\ result.exit_code = 0 <=> (UsageAsked \/ RunSucceeded)
        /\ proc.startup \in {"not_root", "no_dir", "init_defaults",
                             "gen_credential", "lstat", "not_dir", "resolve",
                             "lookup"} => result.exit_code # 0
        /\ (proc.startup = "ok" /\ mret # 0) => result.exit_code # 0

C17_Witness ==
    /\ Done /\ UsageAsked /\ ~proc.dir
    /\ result.exit_code = 0
    /\ calls.list = 0 /\ proc.log = <<>>

\* A fatal failure of the kinds C18 lists has happened.
FatalFailure ==
    \/ proc.startup \in {"gen_credential", "lstat", "not_dir", "resolve", "lookup"}
    \/ proc.startup = "ok" /\ (faults.list > 0 \/ faults.classify > 0)

\* C18: after every fatal failure the log ends with the purge_success=false
\* line and the exit status is not 0.
C18_FatalFailureLogged ==
    (Done /\ FatalFailure) =>
        /\ proc.log # <<>>
        /\ proc.log[Len(proc.log)] = "purge_success false"
        /\ result.exit_code # 0

\* The components from the target directory down to the object with handle
\* h, joined by '/'.
RECURSIVE FullPath(_)
FullPath(h) ==
    IF h = RootHandle THEN TargetDir
    ELSE FullPath(Parent(h)) \o <<"/">> \o DName(h)

\* The positions, in the listing of directory h, of the entries whose path
\* the walker has built in this run.
BuiltIn(h) ==
    {k \in 1..Len(Children(h)) : Children(h)[k] \in Processed}

Max(S) == CHOOSE x \in S : \A y \in S : y <= x

-----------------------------------------------------------------------------
(* C21..C30 *)

\* The nine counters of struct purge_stats_s.
Counters == DOMAIN ZeroStats

\* C22: from one step of a run to the next each of the nine statistics
\* counters grows or stays as it is; neither the walker nor the report
\* decrements or resets one.
C22_CountersNeverDecrease ==
    [][\A c \in Counters : pstats'[c] >= pstats[c]]_vars

\* A run has ended with files removed and kept and a directory seen, and the
\* report has left the counters as the walker accumulated them.
C22_Witness ==
    /\ Done
    /\ pstats.rm_fils > 0 /\ pstats.kept_fils > 0 /\ pstats.dirs > 0
    /\ pstats.rm_bytes = SumSize(FilesOf("removed"))

\* C25: no store call is retried.  Once a listing call has failed the run
\* makes no further listing call (for that directory or any other), and the
\* remove calls of a run name each entry at most once, whether the call
\* succeeded or failed.
C25_NoStoreCallRetried ==
    /\ [](\A j, k \in 1..Len(calls.remove) :
             calls.remove[j].name = calls.remove[k].name => j = k)
    /\ [][faults.list > 0 => calls'.list = calls.list]_vars

\* A run in which a remove call failed and, later, a listing call failed.
C25_Witness ==
    /\ Done
    /\ faults.remove = 1 /\ faults.list = 1
    /\ outcome[3] = "failed" /\ outcome[4] = "none"

\* The entry a frame that is not the innermost one is recursing into.
EntryOf(f) == f.batch[f.i]

\* C26: the walk of a subdirectory lists the directory whose handle is the
\* child entry's own handle, with the filesystem id of the parent's
\* reference; every remove call names an entry of the directory being walked
\* and passes that directory's reference as the parent; a frame's directory
\* reference never changes while the frame exists, so after a child walk has
\* returned the parent lists and removes with the reference it had before.
C26_WalkUsesOwnReference ==
    /\ [](mpc = "walk" /\ stack # <<>> =>
            /\ stack[1].dir_ref = [handle |-> RootHandle, fs_id |-> fs_id]
            /\ \A k \in 2..Len(stack) :
                 /\ stack[k - 1].pc = "call"
                 /\ store[EntryOf(stack[k - 1])].objtype = "DIRECTORY"
                 /\ Parent(EntryOf(stack[k - 1])) = stack[k - 1].dir_ref.handle
                 /\ stack[k].dir_ref =
                        [handle |-> store[EntryOf(stack[k - 1])].handle,
                         fs_id |-> stack[k - 1].dir_ref.fs_id])
    /\ [](\A j \in 1..Len(calls.remove) :
            calls.remove[j].parent =
                [handle |-> Parent(calls.remove[j].name), fs_id |-> fs_id])
    /\ [][/\ \A k \in 1..Len(stack) :
                k <= Len(stack') => stack'[k].dir_ref = stack[k].dir_ref
          /\ Len(calls'.remove) > Len(calls.remove) =>
                /\ Len(stack') = Len(stack)
                /\ calls'.remove[Len(calls'.remove)].parent = Top.dir_ref
                /\ calls'.remove[Len(calls'.remove)].name = CurSlot]_vars

\* The file of the subdirectory was removed with the subdirectory as parent
\* and then, the child walk having returned, a file of the target directory
\* with the target directory as parent.
C26_Witness ==
    /\ Len(calls.remove) = 2
    /\ calls.remove[1] = [name |-> 5, parent |-> [handle |-> 2, fs_id |-> StoreFsId]]
    /\ calls.remove[2] = [name |-> 4, parent |-> [handle |-> RootHandle, fs_id |-> StoreFsId]]

\* The store calls made so far in the run.
StoreCalls == calls.list + Len(calls.remove)

\* What lies below a directory entry has been listed and dispatched to the end.
SubtreeProcessed(s) ==
    \A k \in 1..Len(Children(s)) : Children(s)[k] \in Processed

\* C27: the traversal is depth-first and sequential.  Only the innermost
\* frame runs, every frame under it waiting in the recursive call it made;
\* an entry that follows a directory in its parent's listing is dispatched
\* only after everything below that directory has been dispatched; and a
\* step makes at most one store call, which has returned when the step ends.
C27_DepthFirstSequential ==
    /\ [](\A k \in 1..(Len(stack) - 1) : stack[k].pc = "call")
    /\ [](\A h \in {RootHandle} \cup Slots :
            \A j, k \in 1..Len(Children(h)) :
               (/\ j < k
                /\ outcome[Children(h)[j]] = "dir"
                /\ outcome[Children(h)[k]] # "none")
               => SubtreeProcessed(Children(h)[j]))
    /\ [][StoreCalls' <= StoreCalls + 1]_vars

\* The walker is at the entry that follows the subdirectory, the file below
\* the subdirectory has been dispatched and the child walk has returned.
C27_Witness ==
    /\ InEntry /\ Len(stack) = 1 /\ CurSlot = 3
    /\ outcome[2] = "dir" /\ outcome[5] = "kept" /\ outcome[3] = "none"

\* A listing request is made in this step, and it is answered.
ListingStep == calls'.list = calls.list + 1

ListingAnswered == ListingStep /\ faults'.list = faults.list

\* The innermost frame after a step that left the depth of the stack alone.
SameFrame == Len(stack') = Len(stack)

\* Every entry of the directory that is still in the store has been dispatched.
LevelProcessed(f) ==
    \A k \in 1..Len(Children(f.dir_ref.handle)) :
        LET c == Children(f.dir_ref.handle)[k]
        IN store[c].present => outcome[c] \notin {"none", "classify_failed"}

\* C23: the cursor protocol of a directory level.  The first request of a
\* level carries the start-of-directory cursor and every later one the cursor
\* of the response before it, which was not the end marker; a request asks
\* for at most 60 entries and is answered with no more than it asked for; an
\* answer with no entries and a cursor other than the end marker is followed
\* by another request with that cursor, one with the end marker by the
\* return; and a level that returns without an error of its own has seen the
\* end marker and has dispatched every entry of the directory.
C23_CursorProtocol ==
    /\ [][ListingStep =>
            /\ Top.pc = "readdir"
            /\ ListRequest(Top).count <= 60
            /\ ~Top.asked => ListRequest(Top).token = PVFS_READDIR_START
            /\ Top.asked => /\ ListRequest(Top).token = Top.resp_token
                            /\ Top.resp_token # PVFS_ITERATE_END]_vars
    /\ [][ListingAnswered =>
            LET f == stack'[Len(stack')]
            IN /\ SameFrame /\ f.asked
               /\ Len(f.batch) <= 60
               /\ f.pc \in {"entry", "readdir", "return"}
               /\ f.pc = "entry" => f.batch # <<>> /\ f.i = 1
               /\ f.pc = "readdir" => /\ f.resp_token # PVFS_ITERATE_END
                                      /\ f.token = f.resp_token
               /\ f.pc = "return" => f.resp_token = PVFS_ITERATE_END]_vars
    /\ [](\A k \in 1..Len(stack) :
            LET f == stack[k]
            IN /\ (f.pc = "return" /\ f.ret # -1) =>
                    /\ f.asked /\ f.resp_token = PVFS_ITERATE_END
                    /\ LevelProcessed(f)
               /\ (f.pc = "readdir" /\ f.asked) =>
                    f.resp_token # PVFS_ITERATE_END)

\* In the second run the first answer for the target directory held no entry
\* (the file it would have listed was removed by the first run) and a cursor
\* that is not the end marker: the level is about to ask again.
C23_Witness ==
    /\ prev.run /\ mpc = "walk" /\ Len(stack) = 1
    /\ Top.pc = "readdir" /\ Top.asked /\ Top.token = 1
    /\ calls.list = 1 /\ ~store[2].present
    /\ \A s \in Slots : outcome[s] = "none"

\* The deepest the walker's recursion gets: the target directory and the
\* subdirectory.
Depth == Cardinality({h \in {RootHandle} \cup Slots : Children(h) # <<>>})

\* A frame of the stack has just reached the point where it returns.
BecomesTerminal(k) ==
    /\ k <= Len(stack') /\ stack'[k].pc = "return"
    /\ ~(k <= Len(stack) /\ stack[k].pc = "return")

\* C24: on a finite tree, with a store that answers every call and listings
\* that reach the end marker, every level of the walk is left again and the
\* top-level walk returns to main, which finishes the run; and a level
\* reaches its return only because its last answer carried the end marker,
\* or because a listing call or a classification failed at this level, or
\* because the walk of a subdirectory returned an error.
C24_WalkTerminates ==
    /\ (mpc = "walk") ~> (mpc = "report")
    /\ (mpc = "start") ~> Done
    /\ \A d \in 1..Depth : (Len(stack) >= d) ~> (Len(stack) < d)
    /\ [][\A k \in 1..Depth :
            BecomesTerminal(k) =>
               \/ /\ stack'[k].resp_token = PVFS_ITERATE_END
                  /\ stack'[k].ret # -1
               \/ /\ stack'[k].ret = -1
                  /\ \/ faults'.list = faults.list + 1
                     \/ faults'.classify = faults.classify + 1
                     \/ /\ Len(stack) = k + 1 /\ Len(stack') = k
                        /\ stack[k + 1].pc = "return" /\ stack[k + 1].ret # 0]_vars

\* The subdirectory's level has come to its end-of-stream return while the
\* target directory's level waits for it.
C24_Witness ==
    /\ Len(stack) = 2
    /\ stack[2].pc = "return" /\ stack[2].ret = 0
    /\ stack[2].resp_token = PVFS_ITERATE_END
    /\ stack[1].pc = "call"

\* The five ratios of a report.
RatioNames == DOMAIN log_pstats_more(ZeroStats)

\* The denominator of each ratio as the specification words it.
Denominator(name, ps) ==
    CASE name \in {"percent_bytes_removed"} ->
           ps.rm_bytes + ps.frm_bytes + ps.kept_bytes
      [] name \in {"percent_files_removed", "pre_purge_avg_file_size"} ->
           ps.rm_fils + ps.frm_fils + ps.kept_fils
      [] name = "post_purge_avg_file_size" -> ps.frm_fils + ps.kept_fils
      [] OTHER -> ps.rm_fils

\* C21: whatever the counters are, each of the five ratios of the report is
\* a number, never not-a-number nor infinite, and it is 0.0 whenever its
\* denominator (removed+failed+kept bytes; removed+failed+kept files, twice;
\* failed+kept files; removed files) is 0.
C21_RatiosDefinedZeroOnZeroDenominator ==
    proc.report.written =>
        \A name \in RatioNames :
            LET x == proc.report.ratios[name]
            IN /\ x.kind = "finite" /\ x.den # 0
               /\ Denominator(name, pstats) = 0 => x.num = 0
               /\ Denominator(name, pstats) # 0 => x.den = Denominator(name, pstats)

\* A report for counters with no removed file and no bytes at all: three of
\* the denominators are 0, the two others are not.
C21_Witness ==
    /\ proc.report.written
    /\ pstats.rm_fils = 0 /\ pstats.frm_fils = 0 /\ pstats.kept_fils = MaxCount
    /\ pstats.kept_bytes = 0
    /\ Denominator("percent_bytes_removed", pstats) = 0
    /\ Denominator("percent_files_removed", pstats) # 0

\* The last n lines of the log.
LogTail(n) == SubSeq(proc.log, Len(proc.log) - n + 1, Len(proc.log))

\* The number of entries dispatched with the given outcome.
Dispatched(tag) == Cardinality({s \in Slots : outcome[s] = tag})

\* C29: once the walker has been called the report is written, whether the
\* walk returned success or failure: the log then ends with the finish time,
\* the duration, the nine counters, the five ratios and, as its last line,
\* the purge_success line; the counters reported are those of the entries
\* dispatched up to the return of the walk and the ratios are those of
\* these counters.
C29_ReportAlwaysWritten ==
    /\ [](WalkStarted /\ Done =>
            /\ proc.report.written
            /\ Len(proc.log) >= Len(ReportLines) + 1
            /\ LogTail(Len(ReportLines) + 1) =
                  ReportLines \o <<SuccessLine(IF mret = 0 THEN "true" ELSE "false")>>
            /\ proc.report.counters.rm_fils = Dispatched("removed")
            /\ proc.report.counters.frm_fils = Dispatched("failed")
            /\ proc.report.counters.kept_fils = Dispatched("kept")
            /\ proc.report.counters.dirs = Dispatched("dir")
            /\ proc.report.counters.lnks = Dispatched("lnk")
            /\ proc.report.counters.unknown = Dispatched("unknown")
            /\ proc.report.counters.rm_bytes = SumSize(FilesOf("removed"))
            /\ proc.report.counters.frm_bytes = SumSize(FilesOf("failed"))
            /\ proc.report.counters.kept_bytes = SumSize(FilesOf("kept"))
            /\ proc.report.ratios = log_pstats_more(proc.report.counters))
    /\ [](~Done => ~proc.report.written)
    /\ (mpc = "walk") ~> (Done /\ proc.report.written)

\* A walk that failed on a listing call after it had kept a file and seen a
\* directory: the report carries these counters and purge_success false.
C29_Witness ==
    /\ Done /\ mret = -1 /\ faults.list = 1
    /\ proc.report.written
    /\ proc.report.counters.kept_fils = 1 /\ proc.report.counters.dirs = 1
    /\ proc.log[Len(proc.log)] = "purge_success false"

\* The lines of the given kind that the log holds for the path of entry s.
LinesFor(tag, s) ==
    {k \in 1..Len(proc.flines) :
        proc.flines[k].tag = tag /\ proc.flines[k].path = FullPath(s)}

\* How often a string occurs among the lines of the log.
Occurrences(line) == Cardinality({k \in 1..Len(proc.log) : proc.log[k] = line})

\* C28: with --log-removed-files exactly one R line with the file's path is
\* in the log for every regular file found eligible, in a dry run too and
\* also when the removal failed, and the line was written before the remove
\* call for that file; with --log-kept-files exactly one K line for every
\* regular file found ineligible; with an option off there is no line of its
\* kind; and every R or K line carries the path of a regular file, never
\* that of a directory, a symlink or an entry of unknown type.
C28_FileLinesMatchToggles ==
    /\ \A s \in ProcessedFiles :
          /\ Cardinality(LinesFor("R", s)) =
                IF opts.log_removed_files /\ BothBefore(s) THEN 1 ELSE 0
          /\ Cardinality(LinesFor("K", s)) =
                IF opts.log_kept_files /\ ~BothBefore(s) THEN 1 ELSE 0
    /\ \A k \in 1..Len(proc.flines) :
          /\ proc.flines[k].tag \in {"R", "K"}
          /\ \E s \in ProcessedFiles : proc.flines[k].path = FullPath(s)
    /\ opts.log_removed_files =>
          \A j \in 1..Len(calls.remove) :
             \E k \in LinesFor("R", calls.remove[j].name) :
                proc.flines[k].removes = j - 1
    /\ ~opts.log_removed_files => Occurrences("R") = 0
    /\ ~opts.log_kept_files => Occurrences("K") = 0
    /\ Occurrences("R") + Occurrences("K") = Len(proc.flines)
    /\ Occurrences("R") = Cardinality({k \in 1..Len(proc.flines) : proc.flines[k].tag = "R"})

\* Both options on, not a dry run: one file was logged and removed, one was
\* logged as kept, one was logged and its removal failed, and a directory
\* was walked without a line of its own.
C28_Witness ==
    /\ Done /\ opts.log_removed_files /\ opts.log_kept_files /\ ~opts.dry_run
    /\ outcome[2] = "dir" /\ outcome[5] = "removed"
    /\ outcome[3] = "kept" /\ outcome[4] = "failed"
    /\ Len(proc.flines) = 3

\* The script has exited.
ShExited == sh.pc = "exited"

\* The runs of orangefs-purge whose exit status was not 0.
FailedRuns == {k \in 1..Len(sh.runs) : sh.runs[k].status # 0}

\* The analytics step was enabled and did not succeed: the script is not
\* executable, or it returned a status other than 0.
AnalyticsFailed ==
    sh.ANALYTICS_ENABLED /\ (~sh.logs2df_x \/ sh.analytics_error_encountered)

\* The purge loop has been left.
LoopOver == sh.listed /\ sh.pc \in {"analytics", "finish", "exited"}

\* The directories of the FAILED lines on stderr, in the order written.
RECURSIVE FailedLines(_)
FailedLines(out) ==
    IF out = <<>> THEN <<>>
    ELSE (IF Head(out).key = "FAILED" /\ Head(out).fd = 2
          THEN <<Head(out).dir>> ELSE <<>>) \o FailedLines(Tail(out))

\* The directories of the runs that failed, in the order run.
RECURSIVE FailedDirs(_)
FailedDirs(runs) ==
    IF runs = <<>> THEN <<>>
    ELSE (IF Head(runs).status # 0 THEN <<Head(runs).dir>> ELSE <<>>)
            \o FailedDirs(Tail(runs))

\* C30 as stated: the script exits with a status other than 0 exactly when
\* a purge or the enabled analytics step failed.
C30_ExitNonZeroIffPurgeOrAnalyticsFailed ==
    ShExited => (sh.status # 0 <=> (FailedRuns # {} \/ AnalyticsFailed))

\* C30: once the start-up checks have passed and the user directories are
\* listed, orangefs-purge is run exactly once for every listed directory,
\* in sorted order and whatever the earlier runs returned; FAILED and the
\* directory is printed on stderr for exactly the runs whose exit status
\* was not 0; and the script exits with a status other than 0 exactly
\* when a purge or the enabled analytics step failed.  A script that stops
\* at a start-up check has run no purge, and exits 1, or 0 after -h.
C30_EveryDirPurgedFailuresReported ==
    /\ LoopOver =>
          /\ \A d \in sh.users_dirs :
                Cardinality({k \in 1..Len(sh.runs) : sh.runs[k].dir = d}) = 1
          /\ [k \in 1..Len(sh.runs) |-> sh.runs[k].dir] = HereLines(sh.users_dirs)
          /\ FailedLines(sh.out) = FailedDirs(sh.runs)
    /\ (ShExited /\ sh.listed) =>
          (sh.status # 0 <=> (FailedRuns # {} \/ AnalyticsFailed))
    /\ (ShExited /\ ~sh.listed) =>
          /\ sh.runs = <<>>
          /\ (sh.EUID # 0 \/ ~sh.purge_x) => sh.status = 1
          /\ sh.status \in {0, 1}
          /\ sh.status = 0 => sh.h

\* Two directories were listed; the purge of the first failed, the second
\* was purged all the same, and the script has exited with status 1.
C30_Witness ==
    /\ ShExited /\ sh.status = 1
    /\ Len(sh.runs) = 2
    /\ sh.runs[1].status # 0 /\ sh.runs[2].status = 0
    /\ FailedLines(sh.out) = <<sh.runs[1].dir>>
    /\ ~sh.ANALYTICS_ENABLED

-----------------------------------------------------------------------------
(* C31..C38 *)

\* The directory is named in the exclusions file the script reads.
InExclusionsFile(d) == sh.efile_ok /\ d \in sh.excl

\* How often orangefs-purge has been run on the directory.
TimesPurged(d) == Cardinality({k \in 1..Len(sh.runs) : sh.runs[k].dir = d})

\* C31: a directory one level below users_dir that is named in the
\* exclusions file is never passed to orangefs-purge, and once the purge
\* loop is over every other directory one level below users_dir has been
\* passed to it exactly once.
C31_ExcludedNeverPurgedOthersOnce ==
    /\ \A d \in sh.dirs : InExclusionsFile(d) => TimesPurged(d) = 0
    /\ LoopOver => \A d \in sh.dirs : ~InExclusionsFile(d) => TimesPurged(d) = 1
    /\ \A k \in 1..Len(sh.runs) :
          sh.runs[k].dir \in (sh.dirs \ Excluded(sh)) \cup {EmptyName}

\* Of two user directories the first is excluded: the script has exited
\* having purged the second, and only it.
C31_Witness ==
    /\ ShExited /\ sh.dirs = {1, 2} /\ sh.efile_ok /\ sh.excl = {1}
    /\ Len(sh.runs) = 1 /\ sh.runs[1].dir = 2
    /\ \E k \in 1..Len(sh.out) : sh.out[k] = OutLine(1, "excluding", 1)

\* The purge time threshold of the run: the value of -t, or 31 days.
Threshold == IF sh.t = 0 THEN THIRTYONE_DAYS_SECS ELSE sh.t

\* C32: the script works out one removal-basis time, its start time less
\* the purge time threshold (31 days unless -t gives another), before it
\* purges anything, and every orangefs-purge run of the script is given
\* that value, however far the clock has moved on during earlier purges.
C32_OneBasisForAllPurges ==
    /\ [](\A k \in 1..Len(sh.runs) : sh.runs[k].basis = StartTime - Threshold)
    /\ [](sh.runs # <<>> =>
            /\ sh.START_TIME = StartTime
            /\ sh.REMOVAL_BASIS_TIME = sh.START_TIME - sh.PURGE_TIME_THRESHOLD)
    /\ [][sh.pc \in {"loop", "analytics", "finish"} =>
            sh'.REMOVAL_BASIS_TIME = sh.REMOVAL_BASIS_TIME]_vars

\* Two directories have been purged with the default threshold; the clock
\* has moved on between them and both runs were given the same basis.
C32_Witness ==
    /\ ShExited /\ sh.t = 0 /\ Len(sh.runs) = 2
    /\ sh.clock > sh.START_TIME + 1
    /\ sh.runs[1].basis = StartTime - THIRTYONE_DAYS_SECS
    /\ sh.runs[2].basis = sh.runs[1].basis

\* C33: a walker frame that is about to return has freed its path buffer
\* and the arrays of the batch it held, whichever way it came to return,
\* and once the top-level walk has returned nothing that a frame allocated
\* is still allocated.
C33_BuffersReleasedOnEveryPath ==
    /\ \A k \in 1..Len(stack) :
          stack[k].pc = "return" => StillAllocated(stack[k]) = 0
    /\ mpc \in {"report", "done"} => proc.leaked = 0

\* The start-up steps of main in the order of the source.
StartupOrder ==
    <<"main", "init_defaults", "gen_credential", "lstat", "resolve", "lookup",
      "start", "walk">>

\* Some store call has been issued, or a frame of the walker exists.
StoreTouched == calls.list > 0 \/ calls.remove # <<>> \/ stack # <<>>

\* C34: no listing call and no remove call is issued unless the start-up
\* checks have all succeeded, in the order identity, target argument, store
\* initialisation, credential, lstat (the path itself is a directory, a
\* symbolic link is not followed), resolve, lookup; a run in which one of
\* them fails ends with no store call and with the store as it was.
C34_NoStoreCallBeforeStartupSucceeds ==
    /\ [](StoreTouched =>
            /\ proc.startup = "ok"
            /\ proc.euid = 0 /\ proc.dir
            /\ proc.target = "dir"
            /\ fs_id = StoreFsId)
    /\ [][\A k \in 2..Len(StartupOrder) :
            (mpc # StartupOrder[k] /\ mpc' = StartupOrder[k])
                => mpc = StartupOrder[k - 1]]_vars
    /\ [][proc.startup' # "ok"
            => store' = store /\ calls' = calls /\ stack' = <<>>]_vars
    /\ [](proc.startup \notin {"ok", "pending"}
            => mpc \in {"cleanup_cred", "done"} /\ ~StoreTouched)

C34_Witness ==
    /\ mpc = "done"
    /\ proc.startup = "not_dir" /\ proc.target = "symlink_to_dir"
    /\ ~StoreTouched

\* C35: on every path through main the log stream is written and closed
\* only after it has been opened or replaced by stderr: no fprintf and no
\* fclose is called on it while it is unset, and whatever the log holds was
\* written to a stream that is set.
C35_LogStreamSetBeforeUse ==
    /\ ~proc.unset_use
    /\ proc.log # <<>> => proc.logp # "NULL"

\* What the dispatch of one entry of the given size adds to each counter,
\* by the outcome of the dispatch.
Effect(tag, size) ==
    CASE tag = "dir" -> [ZeroStats EXCEPT !.dirs = 1]
      [] tag = "lnk" -> [ZeroStats EXCEPT !.lnks = 1]
      [] tag = "unknown" -> [ZeroStats EXCEPT !.unknown = 1]
      [] tag = "removed" -> [ZeroStats EXCEPT !.rm_fils = 1, !.rm_bytes = size]
      [] tag = "failed" -> [ZeroStats EXCEPT !.frm_fils = 1, !.frm_bytes = size]
      [] tag = "kept" -> [ZeroStats EXCEPT !.kept_fils = 1, !.kept_bytes = size]
      [] OTHER -> ZeroStats

\* C36: the step that processes one entry changes only the counters of the
\* entry's kind: a directory adds one to dirs (its subtree is counted by the
\* steps of the recursive walk), a symlink one to lnks, an unknown entry one
\* to unknown, a regular file one to the files counter and its size to the
\* bytes counter of exactly one of the pairs removed, failed, kept; a
\* failed classification, a failed listing call and every step that
\* processes no entry leave all nine counters as they are.
C36_EntryChangesOnlyItsCounters ==
    [][/\ \A s \in Slots :
            outcome'[s] # outcome[s] =>
                /\ \A q \in Slots \ {s} : outcome'[q] = outcome[q]
                /\ \A c \in Counters :
                      pstats'[c] = pstats[c] + Effect(outcome'[s], AttrSize(s))[c]
       /\ (faults' # faults /\ faults'.remove = faults.remove) => pstats' = pstats
       /\ outcome' = outcome => pstats' = pstats]_vars

C36_Witness ==
    /\ mpc = "done"
    /\ outcome[2] = "dir" /\ outcome[5] = "removed"
    /\ outcome[3] = "lnk" /\ outcome[4] = "classify_failed"
    /\ pstats = [ZeroStats EXCEPT !.dirs = 1, !.lnks = 1, !.rm_fils = 1,
                                  !.rm_bytes = AttrSize(5)]

\* The string the buffer of the frame holds.
Built == SubSeq(PF.mem.buf, 1, strlen(PF.mem.buf))

\* The entry whose path the frame has just built.
LastName == PF.names[PF.i - 1]

\* The first n characters of s.
Prefix(s, n) == SubSeq(s, 1, IF Len(s) < n THEN Len(s) ELSE n)

\* C37: whenever the parent path fits the buffer, every write made while a
\* child path is built stays inside the PVFS_PATH_MAX bytes of the buffer,
\* and the path built is NUL-terminated, at most PVFS_PATH_MAX - 1
\* characters long, and is parent, '/' and name cut to that length: a name
\* that does not fit is truncated.
C37_ChildPathStaysInBuffer ==
    (stack # <<>> /\ Len(PF.path) <= PVFS_PATH_MAX - 1 /\ PF.pc # "enter") =>
        /\ ~PF.mem.oob
        /\ Len(PF.mem.buf) = PVFS_PATH_MAX
        /\ (PF.pc \in {"memset", "return", "crashed"} /\ PF.i > 1) =>
              /\ \E k \in 1..PVFS_PATH_MAX : PF.mem.buf[k] = NUL
              /\ strlen(PF.mem.buf) <= PVFS_PATH_MAX - 1
              /\ Built = Prefix(PF.path \o <<"/">> \o LastName,
                                PVFS_PATH_MAX - 1)

\* The walker has been called with a missing path or directory reference
\* and has not run yet.
MissingArgument ==
    /\ stack # <<>> /\ Top.pc = "called"
    /\ Top.path.null \/ Top.dir_refp.null

\* The only frame is returning and has never made a listing request.
ReturnsUnasked == Len(stack) = 1 /\ Top.pc = "return" /\ ~Top.asked

\* C38: a call of the walker with a missing path or a missing directory
\* reference goes straight to its return with -1: no listing and no remove
\* call is issued, no path buffer or array is allocated, the store and the
\* nine counters stay as they were, and the caller gets -1.
C38_MissingArgumentFailsAtOnce ==
    /\ [][MissingArgument =>
            /\ Len(stack') = 1
            /\ stack'[1].pc = "return" /\ stack'[1].ret = -1
            /\ ~stack'[1].asked
            /\ StillAllocated(stack'[1]) = 0
            /\ calls' = calls /\ pstats' = pstats /\ store' = store]_vars
    /\ [][ReturnsUnasked =>
            /\ stack' = <<>> /\ mret' = -1
            /\ calls.list = 0 /\ calls.remove = <<>>
            /\ calls' = calls /\ pstats' = pstats /\ store' = store
            /\ proc'.leaked = 0]_vars

C38_Witness ==
    /\ mpc = "report" /\ mret = -1
    /\ calls.list = 0
    /\ pstats = CountDir(ZeroStats)

====
